---- MODULE Spec2Model ----
(***************************************************************************)
(* A model of the tunnel supervisor of usque (api.MaintainTunnel), of the   *)
(* two forwarding goroutines it spawns per session, and of the parts of the *)
(* HTTP/3 and HTTP/2 CONNECT-IP transports the supervisor relies on.        *)
(*                                                                          *)
(* What lies outside the repository (the QUIC/HTTP libraries, the TUN       *)
(* device, the gateway, the caller's context) is the environment: its       *)
(* results are inputs drawn with \E from the small sets defined below.      *)
(***************************************************************************)
EXTENDS Integers, Sequences, FiniteSets, TLC

\* ------------------------------------------------------------------ bounds
\* Sessions (successful connects) the supervisor may go through in one run.
MaxSessions == 2
\* Packets the TUN and the gateway each supply in the packet-flow specification.
MaxPkts == 3
\* The mtu argument of MaintainTunnel: the capacity of every pooled buffer
\* (64 is the first length whose quicvarint takes two bytes).
Mtu == 64
\* Buffers (backing arrays) the pool specification hands out.
MaxBufs == 2

\* ------------------------------------------------------- program constants
IPv4HeaderLen == 20
IPv6HeaderLen == 40
HTTPDatagramContextID == 0
\* make(chan error, 2)
ChanCap == 2

Sessions == 1..MaxSessions

VARIABLES
  http3, http2,   \* the two flags of MaintainTunnel
  cancelled,      \* ctx.Done() is closed
  tunClosed,      \* the TUN device has been closed (every call on it yields os.ErrClosed)
  crashed,        \* a goroutine panicked: the process is gone
  pc,             \* where the supervisor (MaintainTunnel) is
  err,            \* the supervisor's err after a failed connect: "nil", "canceled", "other"
  cur,            \* sessions started so far; ipConn of the running iteration is tr[cur]
  tr,             \* tr[s]: the transport connected for session s: [kind, st]
  chanOf,         \* chanOf[s]: the errChan/closeChan pair made for session s
  errChan,        \* errChan[c]: the content of the buffered channel, oldest first
  closeChan,      \* closeChan[c]: likewise
  nrep,           \* nrep[s]: reports the two tasks of session s have made so far
  eg,             \* eg[s]: the egress goroutine of session s: [pc, pkt]
  ing,            \* ing[s]: the ingress goroutine of session s: [pc, pkt]
  tunSeq, gwSeq,  \* packets the TUN / the gateway have supplied (packet-flow specification)
  tunRead,        \* tunRead[s]: packets egress s read from the TUN, in order
  sent,           \* sent[s]: packets egress s handed to the transport's send, in order
  recvd,          \* recvd[s]: context-id-0 packets ReadPacket returned to ingress s, in order
  tunWritten,     \* tunWritten[s]: packets ingress s wrote to the TUN, in order
  icmpWritten,    \* icmpWritten[s]: packets whose ICMP reply egress s wrote to the TUN
  ipConn,         \* the supervisor's variable ipConn: the object and the Close calls made on it
  wp,             \* a call of WritePacket: its receiver and arguments and, once made, its results
  rp,             \* a call of ReadPacket: likewise
  cp,             \* a call of Close: likewise
  stream,         \* bytes written to the HTTP/2 body stream and not yet read
  wrote,          \* packets handed to HTTP/2 WritePacket, in order
  got,            \* packets HTTP/2 ReadPacket returned, in order
  pool,           \* the slices the sync.Pool of a NetBuffer holds
  held,           \* the slices callers of the NetBuffer hold
  refused,        \* the slices Put did not take
  lastGet,        \* the slice the last Get returned
  taskBuf         \* the variable buf of each forwarding goroutine of one session

coreVars   == <<http3, http2, cancelled, tunClosed, crashed, pc, err, cur, tr,
                chanOf, errChan, closeChan, nrep, eg, ing>>
flowVars   == <<tunSeq, gwSeq, tunRead, sent, recvd, tunWritten, icmpWritten, ipConn>>
packetVars == <<wp, rp, cp>>
streamVars == <<stream, wrote, got>>
poolVars   == <<pool, held, refused, lastGet, taskBuf>>
unitVars   == <<packetVars, streamVars, poolVars>>
vars       == <<coreVars, flowVars, unitVars>>

\* ------------------------------------------------------------------ errors
\* An error value: its kind and, where it carries one, a number.
Error(k, n) == [e |-> k, v |-> n]
Nil == Error("nil", 0)
\* net.ErrClosed and os.ErrClosed themselves
NetErrClosed == Error("net.ErrClosed", 0)
OsErrClosed  == Error("os.ErrClosed", 0)
\* an error of a library for which errors.Is(err, net.ErrClosed) holds
LibClosed == Error("lib.closed", 0)
\* an http3.Error whose code is ErrCodeNoError
H3NoError == Error("h3.NoError", 0)
\* any other error of a library or of the device
Other == Error("other", 0)
\* quic.DatagramTooLargeError{MaxDatagramPayloadSize: n}
DatagramTooLarge(n) == Error("DatagramTooLarge", n)
DatagramHopLimitExceeded(n) == Error("HopLimitExceeded", n)

\* errors.Is(err, net.ErrClosed) / errors.Is(err, os.ErrClosed)
IsNetErrClosed(x) == x.e \in {"net.ErrClosed", "lib.closed"}
IsOsErrClosed(x) == x.e = "os.ErrClosed"

\* ----------------------------------------------------------------- packets
\* An IP packet as far as the code looks at it: version nibble, length and
\* the byte at the TTL / hop-limit offset; id tells packets apart.
Packet(i, v, l, h) == [id |-> i, ver |-> v, len |-> l, hop |-> h]
NoPkt == Packet(0, 0, 0, 0)

Min(a, b) == IF a < b THEN a ELSE b

CheckPacket(b) ==
  IF b.len = 0 THEN Nil
  ELSE IF b.ver = 4
    THEN IF b.len < IPv4HeaderLen THEN Nil
         ELSE IF b.hop <= 1 THEN DatagramHopLimitExceeded(b.hop) ELSE Nil
  ELSE IF b.ver = 6
    THEN IF b.len < IPv6HeaderLen THEN Nil
         ELSE IF b.hop <= 1 THEN DatagramHopLimitExceeded(b.hop) ELSE Nil
  ELSE Nil

\* Whether composeICMPHopLimitExceededPacket / composeICMPTooLargePacket can
\* build a reply for the packet (else they return an error).
Composable(b) ==
  /\ b.len > 0
  /\ \/ b.ver = 4 /\ b.len >= IPv4HeaderLen
     \/ b.ver = 6 /\ b.len >= IPv6HeaderLen

\* The reply packet: an ICMP packet of the same IP version, answering packet b.
IcmpReply(b) == Packet(b.id, b.ver, (IF b.ver = 4 THEN IPv4HeaderLen ELSE IPv6HeaderLen) + 8, 64)

\* ICMPForError: [icmp, err]
ICMPForError(x, data) ==
  IF x.e \in {"HopLimitExceeded", "DatagramTooLarge"}
    THEN IF Composable(data) THEN [icmp |-> IcmpReply(data), err |-> Nil, sent |-> FALSE]
         ELSE [icmp |-> NoPkt, err |-> Other, sent |-> FALSE]
    ELSE [icmp |-> NoPkt, err |-> x, sent |-> FALSE]

\* A variant of WritePacket that hands the packet to the transport before it
\* inspects it.
WritePacketSendFirst(b, send, done) ==
  IF send # Nil
    THEN IF done THEN [icmp |-> NoPkt, err |-> NetErrClosed, sent |-> FALSE]
         ELSE ICMPForError(send, b)
  ELSE IF CheckPacket(b) # Nil THEN [ICMPForError(CheckPacket(b), b) EXCEPT !.sent = TRUE]
  ELSE [icmp |-> NoPkt, err |-> Nil, sent |-> TRUE]

\* WritePacket of HTTP3Connection and of HTTP2Connection: send is the result of
\* SendDatagram / writer.Write (Nil or an error), done whether c.ctx is done.
WritePacket(b, send, done) ==
  IF CheckPacket(b) # Nil THEN ICMPForError(CheckPacket(b), b)
  ELSE IF send = Nil THEN [icmp |-> NoPkt, err |-> Nil, sent |-> TRUE]
  ELSE IF done THEN [icmp |-> NoPkt, err |-> NetErrClosed, sent |-> FALSE]
  ELSE ICMPForError(send, b)

\* ------------------------------------------------------ packets, byte by byte
\* A packet as the sequence of its bytes; Go's b[i] is b[i + 1] here.
BE16(n) == <<(n \div 256) % 256, n % 256>>
BE32(n) == <<(n \div 16777216) % 256, (n \div 65536) % 256, (n \div 256) % 256, n % 256>>
Zeros(n) == [i \in 1..n |-> 0]
\* b[:min(len(b), n)]
Take(b, n) == SubSeq(b, 1, Min(Len(b), n))

\* b[0] >> 4
ipVersion(b) == b[1] \div 16

\* A variant of PacketOf that reads the IPv6 hop limit at the offset of the
\* IPv4 TTL.
PacketOfSameOffset(i, b) ==
  IF Len(b) = 0 THEN Packet(i, 0, 0, 0)
  ELSE Packet(i, ipVersion(b), Len(b),
              IF ipVersion(b) = 4 /\ Len(b) >= IPv4HeaderLen THEN b[9]
              ELSE IF ipVersion(b) = 6 /\ Len(b) >= IPv6HeaderLen THEN b[9]
              ELSE 0)

\* What CheckPacket looks at in the bytes b: the version nibble, len(b), and
\* b[8] of an IPv4 packet or b[7] of an IPv6 packet that has its whole header.
PacketOf(i, b) ==
  IF Len(b) = 0 THEN Packet(i, 0, 0, 0)
  ELSE Packet(i, ipVersion(b), Len(b),
              IF ipVersion(b) = 4 /\ Len(b) >= IPv4HeaderLen THEN b[9]
              ELSE IF ipVersion(b) = 6 /\ Len(b) >= IPv6HeaderLen THEN b[8]
              ELSE 0)

\* the ICMP types the code names
ICMPv4TypeTimeExceeded == 11
ICMPv4TypeDestinationUnreachable == 3
ICMPv6TypeTimeExceeded == 3
ICMPv6TypePacketTooBig == 2
\* Code: 4, fragmentation needed and DF set
ICMPv4CodeFragNeeded == 4
\* packet[:min(len(packet), 1232)]
ICMPv6MaxData == 1232

\* for (sum >> 16) > 0 { sum = (sum & 0xffff) + (sum >> 16) }
RECURSIVE Fold16(_)
Fold16(sum) == IF sum \div 65536 > 0 THEN Fold16((sum % 65536) + (sum \div 65536)) ELSE sum

\* The sum of the 16-bit words of header from (Go) offset i on, the word at
\* offset skip left out. The sum is a uint32: the ten words of a 20-byte
\* header stay far below 2^32, so it never wraps.
RECURSIVE SumWords(_, _, _)
SumWords(header, i, skip) ==
  IF i >= Len(header) THEN 0
  ELSE (IF i = skip THEN 0 ELSE header[i + 1] * 256 + header[i + 2])
       + SumWords(header, i + 2, skip)

\* A variant of calculateIPv4Checksum that leaves the carries unfolded.
calculateIPv4ChecksumNoFold(header) ==
  65535 - (SumWords(header, 0, 10) % 65536)

calculateIPv4Checksum(header) ==
  65535 - (Fold16(SumWords(header, 0, 10)) % 65536)

\* The header of composeIPv4ICMP before the checksum is stored.
IPv4Header(length, source, dest) ==
  <<4 * 16 + IPv4HeaderLen \div 4, 0>> \o BE16(length % 65536) \o Zeros(4)
    \o <<64, 1, 0, 0>> \o source \o dest

composeIPv4ICMP(icmp, source, dest) ==
  LET header == IPv4Header(IPv4HeaderLen + Len(icmp), source, dest) IN
    SubSeq(header, 1, 10) \o BE16(calculateIPv4Checksum(header)) \o SubSeq(header, 13, 20)
      \o icmp

composeIPv6ICMP(icmp, source, dest) ==
  <<6 * 16, 0, 0, 0>> \o BE16(Len(icmp) % 65536) \o <<58, 64>> \o source \o dest \o icmp

\* icmp.Message{Type, Code, Body}.Marshal of golang.org/x/net/icmp, for a
\* TimeExceeded or PacketTooBig body: type, code, checksum, one 32-bit word
\* (unused, or the MTU), then Data. The checksum is the library's business:
\* its two bytes are left 0 here.
icmpMarshal(type, code, word, data) == <<type, code, 0, 0>> \o BE32(word) \o data

\* The result of a compose function: the packet, or an error.
Composed(b) == [icmp |-> b, err |-> Nil]
NotComposed == [icmp |-> <<>>, err |-> Other]

\* A variant of composeICMPHopLimitExceededPacket that keeps the addresses of
\* the packet in place: the reply goes to the packet's destination.
composeICMPHopLimitExceededPacketNoSwap(packet) ==
  IF Len(packet) = 0 THEN NotComposed
  ELSE IF ipVersion(packet) = 4
    THEN IF Len(packet) < IPv4HeaderLen THEN NotComposed
         ELSE Composed(composeIPv4ICMP(
                icmpMarshal(ICMPv4TypeTimeExceeded, 0, 0, Take(packet, IPv4HeaderLen + 8)),
                SubSeq(packet, 13, 16), SubSeq(packet, 17, 20)))
  ELSE IF ipVersion(packet) = 6
    THEN IF Len(packet) < IPv6HeaderLen THEN NotComposed
         ELSE Composed(composeIPv6ICMP(
                icmpMarshal(ICMPv6TypeTimeExceeded, 0, 0, Take(packet, ICMPv6MaxData)),
                SubSeq(packet, 9, 24), SubSeq(packet, 25, 40)))
  ELSE NotComposed

composeICMPHopLimitExceededPacket(packet) ==
  IF Len(packet) = 0 THEN NotComposed
  ELSE IF ipVersion(packet) = 4
    THEN IF Len(packet) < IPv4HeaderLen THEN NotComposed
         ELSE Composed(composeIPv4ICMP(
                icmpMarshal(ICMPv4TypeTimeExceeded, 0, 0, Take(packet, IPv4HeaderLen + 8)),
                SubSeq(packet, 17, 20), SubSeq(packet, 13, 16)))
  ELSE IF ipVersion(packet) = 6
    THEN IF Len(packet) < IPv6HeaderLen THEN NotComposed
         ELSE Composed(composeIPv6ICMP(
                icmpMarshal(ICMPv6TypeTimeExceeded, 0, 0, Take(packet, ICMPv6MaxData)),
                SubSeq(packet, 25, 40), SubSeq(packet, 9, 24)))
  ELSE NotComposed

\* A variant of composeICMPTooLargePacket that reports the length of the
\* packet instead of the size the datagram send allows.
composeICMPTooLargePacketOwnLength(packet, mtu) ==
  IF Len(packet) = 0 THEN NotComposed
  ELSE IF ipVersion(packet) = 4
    THEN IF Len(packet) < IPv4HeaderLen THEN NotComposed
         ELSE Composed(composeIPv4ICMP(
                icmpMarshal(ICMPv4TypeDestinationUnreachable, ICMPv4CodeFragNeeded,
                            Len(packet), Take(packet, IPv4HeaderLen + 8)),
                SubSeq(packet, 17, 20), SubSeq(packet, 13, 16)))
  ELSE IF ipVersion(packet) = 6
    THEN IF Len(packet) < IPv6HeaderLen THEN NotComposed
         ELSE Composed(composeIPv6ICMP(
                icmpMarshal(ICMPv6TypePacketTooBig, 0, Len(packet), Take(packet, ICMPv6MaxData)),
                SubSeq(packet, 25, 40), SubSeq(packet, 9, 24)))
  ELSE NotComposed

composeICMPTooLargePacket(packet, mtu) ==
  IF Len(packet) = 0 THEN NotComposed
  ELSE IF ipVersion(packet) = 4
    THEN IF Len(packet) < IPv4HeaderLen THEN NotComposed
         ELSE Composed(composeIPv4ICMP(
                icmpMarshal(ICMPv4TypeDestinationUnreachable, ICMPv4CodeFragNeeded,
                            mtu, Take(packet, IPv4HeaderLen + 8)),
                SubSeq(packet, 17, 20), SubSeq(packet, 13, 16)))
  ELSE IF ipVersion(packet) = 6
    THEN IF Len(packet) < IPv6HeaderLen THEN NotComposed
         ELSE Composed(composeIPv6ICMP(
                icmpMarshal(ICMPv6TypePacketTooBig, 0, mtu, Take(packet, ICMPv6MaxData)),
                SubSeq(packet, 25, 40), SubSeq(packet, 9, 24)))
  ELSE NotComposed

\* ICMPForError on the bytes: (icmp, err)
ICMPForErrorBytes(x, data) ==
  IF x.e = "HopLimitExceeded"
    THEN LET c == composeICMPHopLimitExceededPacket(data) IN
           IF c.err # Nil THEN NotComposed ELSE c
  ELSE IF x.e = "DatagramTooLarge"
    THEN LET c == composeICMPTooLargePacket(data, x.v) IN
           IF c.err # Nil THEN NotComposed ELSE c
  ELSE [icmp |-> <<>>, err |-> x]

\* What the environment hands to a read: a datagram / record, or a failure.
Dgram(i, c, l) == [t |-> "data", id |-> i, ctx |-> c, len |-> l, err |-> Nil, at |-> "-"]
Malformed      == [t |-> "malformed", id |-> 0, ctx |-> 0, len |-> 0, err |-> Nil, at |-> "-"]
Failure(x, a)  == [t |-> "err", id |-> 0, ctx |-> 0, len |-> 0, err |-> x, at |-> a]

\* The result of ReadPacket: it returned (n, err) or panicked; "again" is one
\* more turn of its own for loop.
Returned(i, n, x) == [r |-> "ret", id |-> i, n |-> n, err |-> x]
Again == [r |-> "again", id |-> 0, n |-> 0, err |-> Nil]
Panic == [r |-> "panic", id |-> 0, n |-> 0, err |-> Nil]

\* A variant of HTTP3ReadPacket that returns the payload of every datagram,
\* whatever its context id.
HTTP3ReadPacketAnyContext(in, done) ==
  IF in.t = "err"
    THEN IF done THEN Returned(0, 0, NetErrClosed)
         ELSE IF in.err = H3NoError THEN Again
         ELSE Returned(0, 0, in.err)
  ELSE IF in.t = "malformed" THEN Returned(0, 0, Other)
  ELSE Returned(in.id, Min(Mtu, in.len), Nil)

\* HTTP3Connection.ReadPacket on one result of ReceiveDatagram
HTTP3ReadPacket(in, done) ==
  IF in.t = "err"
    THEN IF done THEN Returned(0, 0, NetErrClosed)
         ELSE IF in.err = H3NoError THEN Again
         ELSE Returned(0, 0, in.err)
  ELSE IF in.t = "malformed" THEN Returned(0, 0, Other)
  ELSE IF in.ctx = HTTPDatagramContextID THEN Returned(in.id, Min(Mtu, in.len), Nil)
  ELSE Again

\* HTTP2Connection.ReadPacket on one record of the body stream, or on a read
\* of the stream failing at the context id, the length or the payload
HTTP2ReadPacket(in, done) ==
  IF in.t = "err"
    THEN IF in.at = "ctxid" /\ done THEN Returned(0, 0, NetErrClosed)
         ELSE Returned(0, 0, Other)
  ELSE IF in.len > Mtu THEN Panic
  ELSE IF in.ctx = HTTPDatagramContextID THEN Returned(in.id, in.len, Nil)
  ELSE Again

ReadPacket(kind, in, done) ==
  IF kind = "h3" THEN HTTP3ReadPacket(in, done) ELSE HTTP2ReadPacket(in, done)

\* ------------------------------------------------- the transports, byte by byte
\* A variant of quicvarintAppend that always writes a single byte.
quicvarintAppendOneByte(n) == <<n % 256>>

\* quicvarint.Append: 1, 2 or 4 bytes, the two top bits of the first telling
\* which (the 8-byte form is for values no packet length reaches).
quicvarintAppend(n) ==
  IF n < 64 THEN <<n>>
  ELSE IF n < 16384 THEN <<64 + n \div 256, n % 256>>
  ELSE <<128 + ((n \div 16777216) % 64), (n \div 65536) % 256, (n \div 256) % 256, n % 256>>

\* the value of the bytes b read as one big-endian number
RECURSIVE BigEndian(_)
BigEndian(b) == IF b = <<>> THEN 0 ELSE BigEndian(SubSeq(b, 1, Len(b) - 1)) * 256 + b[Len(b)]

\* quicvarint.Parse / quicvarint.Read: the value and the bytes it took, or a
\* failure when the bytes end too early.
quicvarintParse(data) ==
  IF data = <<>> THEN [ok |-> FALSE, v |-> 0, n |-> 0]
  ELSE LET l == 2 ^ (data[1] \div 64) IN
    IF Len(data) < l THEN [ok |-> FALSE, v |-> 0, n |-> 0]
    ELSE [ok |-> TRUE, v |-> BigEndian(<<data[1] % 64>> \o SubSeq(data, 2, l)), n |-> l]

\* The result of WritePacket: (icmp, err) and the bytes it got sent.
Rejected(r) == [icmp |-> r.icmp, err |-> r.err, data |-> <<>>]

\* HTTP3Connection.WritePacket
HTTP3WritePacket(b, send, done) ==
  IF CheckPacket(PacketOf(0, b)) # Nil
    THEN Rejected(ICMPForErrorBytes(CheckPacket(PacketOf(0, b)), b))
  ELSE LET data == <<HTTPDatagramContextID>> \o b IN
    IF send = Nil THEN [icmp |-> <<>>, err |-> Nil, data |-> data]
    ELSE IF done THEN [icmp |-> <<>>, err |-> NetErrClosed, data |-> <<>>]
    ELSE Rejected(ICMPForErrorBytes(send, b))

\* HTTP2Connection.WritePacket
HTTP2WritePacket(b, send, done) ==
  IF CheckPacket(PacketOf(0, b)) # Nil
    THEN Rejected(ICMPForErrorBytes(CheckPacket(PacketOf(0, b)), b))
  ELSE LET data == <<HTTPDatagramContextID>> \o quicvarintAppend(Len(b)) \o b IN
    IF send = Nil THEN [icmp |-> <<>>, err |-> Nil, data |-> data]
    ELSE IF done THEN [icmp |-> <<>>, err |-> NetErrClosed, data |-> <<>>]
    ELSE Rejected(ICMPForErrorBytes(send, b))

WritePacketBytes(kind, b, send, done) ==
  IF kind = "h3" THEN HTTP3WritePacket(b, send, done) ELSE HTTP2WritePacket(b, send, done)

\* A connection object as Close sees it: which of its fields are not nil.
\* HTTP3Connection has conn (the request stream), transport and udpConn;
\* HTTP2Connection has conn and tr.
HTTP3Fields(conn, transport, udpConn) ==
  [conn |-> conn, transport |-> transport, udpConn |-> udpConn]
HTTP2Fields(conn, h2tr) == [conn |-> conn, transport |-> h2tr, udpConn |-> FALSE]

\* The result of Close: the Close calls it made on the components, in order,
\* and the error it returned.
Closed(calls) == [calls |-> calls, err |-> Nil]

\* A variant of HTTP3Close that closes the UDP socket first.
HTTP3CloseSocketFirst(c, fails) ==
  Closed((IF c.udpConn THEN <<"udpConn">> ELSE <<>>)
           \o (IF c.conn THEN <<"conn">> ELSE <<>>)
           \o (IF c.transport THEN <<"transport">> ELSE <<>>))

\* HTTP3Connection.Close; fails: the components whose Close returns an error
HTTP3Close(c, fails) ==
  Closed((IF c.conn THEN <<"conn">> ELSE <<>>)
           \o (IF c.transport THEN <<"transport">> ELSE <<>>)
           \o (IF c.udpConn THEN <<"udpConn">> ELSE <<>>))

\* HTTP2Connection.Close: conn.Shutdown, tr.CloseIdleConnections
HTTP2Close(c, fails) ==
  Closed((IF c.conn THEN <<"conn">> ELSE <<>>)
           \o (IF c.transport THEN <<"transport">> ELSE <<>>))

\* The objects ConnectHTTP3 returns: transport is always made; udpConn is nil
\* when ListenUDP failed; conn is nil until OpenRequestStream has succeeded.
ConnectHTTP3Returns ==
  { HTTP3Fields(FALSE, TRUE, FALSE), HTTP3Fields(FALSE, TRUE, TRUE), HTTP3Fields(TRUE, TRUE, TRUE) }

\* The objects ConnectHTTP2 returns: tr is always made; conn is nil until
\* NewClientConn has succeeded.
ConnectHTTP2Returns == { HTTP2Fields(FALSE, TRUE), HTTP2Fields(TRUE, TRUE) }

\* The datagram ReceiveDatagram handed over, as HTTP3ReadPacket sees it.
DatagramIn(data) ==
  LET v == quicvarintParse(data) IN
    IF v.ok THEN Dgram(0, v.v, Len(data) - v.n) ELSE Malformed

\* copy(buf, data[n:]) into a buffer of Mtu bytes
DatagramPayload(data) ==
  LET v == quicvarintParse(data) IN SubSeq(data, v.n + 1, v.n + Min(Mtu, Len(data) - v.n))

\* What the reads of c.reader yield for the next record of the body stream s,
\* the stream ending after s: the record, or the failure of the read that
\* runs out of bytes. buf[:length] comes before the read of the payload.
RecordIn(s) ==
  LET c == quicvarintParse(s) IN
    IF ~c.ok THEN Failure(Other, "ctxid")
    ELSE LET l == quicvarintParse(SubSeq(s, c.n + 1, Len(s))) IN
      IF ~l.ok THEN Failure(Other, "length")
      ELSE IF l.v > Mtu THEN Dgram(0, c.v, l.v)
      ELSE IF Len(s) - c.n - l.n < l.v THEN Failure(Other, "payload")
      ELSE Dgram(0, c.v, l.v)

\* the bytes the record takes and its payload, for a whole record
RecordLen(s) ==
  LET c == quicvarintParse(s)
      l == quicvarintParse(SubSeq(s, c.n + 1, Len(s)))
  IN c.n + l.n + l.v

RecordPayload(s) ==
  LET c == quicvarintParse(s)
      l == quicvarintParse(SubSeq(s, c.n + 1, Len(s)))
  IN SubSeq(s, c.n + l.n + 1, c.n + l.n + l.v)

\* ------------------------------------------------------------- environment
\* Packets a TUN read may yield: forwardable, hop limit used up, unparseable.
TunPackets(i) ==
  { Packet(i, 4, IPv4HeaderLen, 64), Packet(i, 4, IPv4HeaderLen, 1), Packet(i, 6, IPv4HeaderLen, 64) }

\* Results of device.ReadPacket
TunReads(i) ==
  IF tunClosed THEN { [err |-> OsErrClosed, pkt |-> NoPkt] }
  ELSE { [err |-> Nil, pkt |-> p] : p \in TunPackets(i) } \cup { [err |-> Other, pkt |-> NoPkt] }

\* Results of device.WritePacket
TunWrites == IF tunClosed THEN {OsErrClosed} ELSE {Nil, Other}

\* Results of SendDatagram / writer.Write on transport c
Sends(c) ==
  IF c.st = "open"
    THEN {Nil} \cup (IF c.kind = "h3" THEN {DatagramTooLarge(Mtu - 1)} ELSE {})
    ELSE {LibClosed, Other}

\* Results of ReceiveDatagram / of reading one record on transport c
Receives(c, i) ==
  IF c.st = "open"
    THEN { Dgram(i, x, l) : x \in {0, 1}, l \in {Mtu, Mtu + 1} }
         \cup (IF c.kind = "h3" THEN {Malformed} ELSE {})
         \cup (IF c.kind = "h3" /\ cancelled THEN {Failure(Other, "-")} ELSE {})
    ELSE IF c.kind = "h3" THEN { Failure(x, "-") : x \in {H3NoError, LibClosed, Other} }
    ELSE { Failure(Other, a) : a \in {"ctxid", "length", "payload"} }

\* ------------------------------------------------------------ the buffer pool
\* A byte slice: its backing array, len and cap. NewNetBuffer(mtu) makes
\* slices of len = cap = Mtu.
Slice(a, l, c) == [arr |-> a, len |-> l, cap |-> c]
NoSlice == Slice(0, 0, 0)
\* New of the sync.Pool: make([]byte, capacity)
NewSlice(a) == Slice(a, Mtu, Mtu)

\* A variant of PutTakes without the check of the capacity.
PutTakesAll(buf) == TRUE

\* Put keeps buf exactly when cap(buf) == n.capacity
PutTakes(buf) == buf.cap = Mtu

\* The re-slicings of h a caller may pass to Put: h[:l] keeps the capacity,
\* h[:l:c] and h[k:] lower it.
Reslices(h) ==
  { Slice(h.arr, l, c) : l \in {0, 1, h.cap - 1, h.cap}, c \in {h.cap - 1, h.cap} }
    \ { Slice(h.arr, h.cap, h.cap - 1) }

\* No call of WritePacket / ReadPacket made yet.
NoWrite == [kind |-> "none", pkt |-> <<>>, send |-> Nil, done |-> FALSE, called |-> FALSE,
            check |-> Nil, out |-> [icmp |-> <<>>, err |-> Nil, data |-> <<>>]]
NoRead == [kind |-> "none", raw |-> <<>>, fail |-> Nil, done |-> FALSE, called |-> FALSE,
           in |-> Malformed, out |-> Again, buf |-> <<>>]

NoClose == [kind |-> "none", c |-> HTTP3Fields(FALSE, FALSE, FALSE), fails |-> {},
            called |-> FALSE, out |-> Closed(<<>>)]

IdlePacket == wp = NoWrite /\ rp = NoRead /\ cp = NoClose

\* The value of ipConn: the connection object ConnectHTTP3 / ConnectHTTP2
\* returned (kind "none": the nil interface) and the number of Close calls the
\* supervisor has made on it.
Conn(kind, c) == [kind |-> kind, c |-> c, closes |-> 0]
NoConn == Conn("none", HTTP3Fields(FALSE, FALSE, FALSE))

\* A variant of SupervisorClose that makes no call.
SupervisorCloseSkipped(x) == x

\* ipConn.Close()
SupervisorClose(x) == [x EXCEPT !.closes = @ + 1]

IdleStream == stream = <<>> /\ wrote = <<>> /\ got = <<>>

\* buf of the egress and of the ingress goroutine; got: the goroutine has made
\* the Get that opens its iteration (egress) or its life (ingress); has: it
\* has not put back what it got; twice: a goroutine put back a slice it had
\* put back already.
NoTaskBuf == [eg |-> NoSlice, egGot |-> FALSE, egHas |-> FALSE,
              ing |-> NoSlice, ingGot |-> FALSE, ingHas |-> FALSE, twice |-> FALSE]

IdlePool == pool = {} /\ held = {} /\ refused = {} /\ lastGet = NoSlice /\ taskBuf = NoTaskBuf

\* ------------------------------------------------------------------- tasks
Task(p, k) == [pc |-> p, pkt |-> k]
Idle == Task("none", NoPkt)

\* A variant of MakeChan: one pair of channels made before the loop and
\* shared by all sessions.
MakeChanOnce(s) == 1

\* make(chan error, 2), twice: a fresh pair of channels for session s
MakeChan(s) == s

Msg(s) == [from |-> s, ord |-> nrep[s] + 1]

Init ==
  /\ http3 \in BOOLEAN
  /\ http2 \in BOOLEAN
  /\ cancelled = FALSE
  /\ tunClosed = FALSE
  /\ crashed = FALSE
  /\ pc = "loop"
  /\ err = "nil"
  /\ cur = 0
  /\ tr = [s \in Sessions |-> [kind |-> "none", st |-> "none"]]
  /\ chanOf = [s \in Sessions |-> 0]
  /\ errChan = [c \in Sessions |-> <<>>]
  /\ closeChan = [c \in Sessions |-> <<>>]
  /\ nrep = [s \in Sessions |-> 0]
  /\ eg = [s \in Sessions |-> Idle]
  /\ ing = [s \in Sessions |-> Idle]
  /\ tunSeq = 0
  /\ gwSeq = 0
  /\ tunRead = [s \in Sessions |-> <<>>]
  /\ sent = [s \in Sessions |-> <<>>]
  /\ recvd = [s \in Sessions |-> <<>>]
  /\ tunWritten = [s \in Sessions |-> <<>>]
  /\ icmpWritten = [s \in Sessions |-> <<>>]
  /\ ipConn = NoConn
  /\ IdlePacket /\ IdleStream /\ IdlePool

Running == ~crashed /\ pc # "exited"

\* ----------------------------------------------------------- the supervisor
\* A variant of AttemptOrder that goes back to the transport of the last
\* session instead of starting with HTTP/3 again.
AttemptOrderSticky(stage) ==
  IF stage = "top" /\ http3 /\ ~(cur > 0 /\ tr[cur].kind = "h2" /\ http2) THEN "conn3"
  ELSE IF http2 THEN "conn2"
  ELSE "sleep"

\* The order of the attempt loop: what follows the top of the loop and what
\* follows a failed HTTP/3 attempt.
AttemptOrder(stage) ==
  IF stage = "top" /\ http3 THEN "conn3"
  ELSE IF http2 THEN "conn2"
  ELSE "sleep"

\* for { ... : the top of the loop
LoopTop ==
  /\ Running /\ pc = "loop"
  /\ pc' = AttemptOrder("top")
  /\ UNCHANGED <<http3, http2, cancelled, tunClosed, crashed, err, cur, tr,
                 chanOf, errChan, closeChan, nrep, eg, ing>>

\* connected: make the channels, spawn the two goroutines, reach the select
Connected(kind) ==
  /\ cur < MaxSessions
  /\ cur' = cur + 1
  /\ tr' = [tr EXCEPT ![cur + 1] = [kind |-> kind, st |-> "open"]]
  /\ chanOf' = [chanOf EXCEPT ![cur + 1] = MakeChan(cur + 1)]
  /\ eg' = [eg EXCEPT ![cur + 1] = Task("tunRead", NoPkt)]
  /\ ing' = [ing EXCEPT ![cur + 1] = Task("read", NoPkt)]
  /\ pc' = "select"
  /\ err' = "nil"

\* What ConnectHTTP3 may return: nil, an error wrapping context.Canceled (only
\* once ctx is done), any other error.
Connect3Results == {"nil", "other"} \cup (IF cancelled THEN {"canceled"} ELSE {})

ConnectHTTP3(res) ==
  /\ Running /\ pc = "conn3"
  /\ res \in Connect3Results
  /\ IF res = "nil"
       THEN Connected("h3")
       ELSE /\ pc' = "close3"
            /\ err' = res
            /\ UNCHANGED <<cur, tr, chanOf, eg, ing>>
  /\ UNCHANGED <<http3, http2, cancelled, tunClosed, crashed, errChan, closeChan, nrep>>

\* A variant of AfterFailed3 that sleeps and restarts instead of falling
\* through to HTTP/2.
AfterFailed3Sleep == IF err = "canceled" THEN "returned" ELSE "sleep"

\* ipConn.Close() on the half-built transport, then the check for cancellation
AfterFailed3 == IF err = "canceled" THEN "returned" ELSE AttemptOrder("h3failed")

CloseFailed3 ==
  /\ Running /\ pc = "close3"
  /\ pc' = AfterFailed3
  /\ err' = "nil"
  /\ UNCHANGED <<http3, http2, cancelled, tunClosed, crashed, cur, tr,
                 chanOf, errChan, closeChan, nrep, eg, ing>>

\* ConnectHTTP2 never looks at ctx: it returns nil or an error that is not
\* context.Canceled.
Connect2Results == {"nil", "other"}

ConnectHTTP2(res) ==
  /\ Running /\ pc = "conn2"
  /\ res \in Connect2Results
  /\ IF res = "nil"
       THEN Connected("h2")
       ELSE /\ pc' = "close2"
            /\ err' = res
            /\ UNCHANGED <<cur, tr, chanOf, eg, ing>>
  /\ UNCHANGED <<http3, http2, cancelled, tunClosed, crashed, errChan, closeChan, nrep>>

AfterFailed2 == IF err = "canceled" THEN "returned" ELSE "sleep"

CloseFailed2 ==
  /\ Running /\ pc = "close2"
  /\ pc' = AfterFailed2
  /\ err' = "nil"
  /\ UNCHANGED <<http3, http2, cancelled, tunClosed, crashed, cur, tr,
                 chanOf, errChan, closeChan, nrep, eg, ing>>

\* time.Sleep(reconnectDelay); continue
AttemptSleep ==
  /\ Running /\ pc = "sleep"
  /\ pc' = "loop"
  /\ UNCHANGED <<http3, http2, cancelled, tunClosed, crashed, err, cur, tr,
                 chanOf, errChan, closeChan, nrep, eg, ing>>

\* The cases of the select that can proceed. Go takes any one of them.
Ready ==
  (IF cancelled THEN {"ctx"} ELSE {})
  \cup (IF errChan[chanOf[cur]] # <<>> THEN {"err"} ELSE {})
  \cup (IF closeChan[chanOf[cur]] # <<>> THEN {"close"} ELSE {})

Select(case) ==
  /\ Running /\ pc = "select"
  /\ case \in Ready
  /\ pc' = CASE case = "ctx" -> "ctxClose"
             [] case = "err" -> "errClose"
             [] case = "close" -> "devClose"
  /\ errChan' = IF case = "err"
                  THEN [errChan EXCEPT ![chanOf[cur]] = Tail(@)] ELSE errChan
  /\ closeChan' = IF case = "close"
                    THEN [closeChan EXCEPT ![chanOf[cur]] = Tail(@)] ELSE closeChan
  /\ UNCHANGED <<http3, http2, cancelled, tunClosed, crashed, err, cur, tr,
                 chanOf, nrep, eg, ing>>

\* ipConn.Close() in one of the three cases, and what follows it
AfterClose(p) ==
  CASE p = "ctxClose" -> "returned"
    [] p = "errClose" -> "errSleep"
    [] p = "devClose" -> "exited"

CloseSession ==
  /\ Running /\ pc \in {"ctxClose", "errClose", "devClose"}
  /\ tr' = [tr EXCEPT ![cur].st = "closed"]
  /\ pc' = AfterClose(pc)
  /\ UNCHANGED <<http3, http2, cancelled, tunClosed, crashed, err, cur,
                 chanOf, errChan, closeChan, nrep, eg, ing>>

\* time.Sleep(reconnectDelay) of the errChan case, then the loop goes round
SessionSleep ==
  /\ Running /\ pc = "errSleep"
  /\ pc' = "loop"
  /\ UNCHANGED <<http3, http2, cancelled, tunClosed, crashed, err, cur, tr,
                 chanOf, errChan, closeChan, nrep, eg, ing>>

\* ------------------------------------------------------ reporting an error
\* errChan <- err / closeChan <- err by a task of session s (the send blocks
\* while the channel is full), followed by the task's return.

\* A variant of CanReport for channels of capacity one.
CanReportCapOne(s, x) ==
  IF IsOsErrClosed(x) THEN Len(closeChan[chanOf[s]]) < 1
  ELSE Len(errChan[chanOf[s]]) < 1

CanReport(s, x) ==
  IF IsOsErrClosed(x) THEN Len(closeChan[chanOf[s]]) < ChanCap
  ELSE Len(errChan[chanOf[s]]) < ChanCap

\* A variant of Report that sends every error on errChan.
ReportAllOnErrChan(s, x) ==
  /\ Len(errChan[chanOf[s]]) < ChanCap
  /\ errChan' = [errChan EXCEPT ![chanOf[s]] = Append(@, Msg(s))]
  /\ UNCHANGED closeChan
  /\ nrep' = [nrep EXCEPT ![s] = @ + 1]

Report(s, x) ==
  /\ CanReport(s, x)
  /\ IF IsOsErrClosed(x)
       THEN /\ closeChan' = [closeChan EXCEPT ![chanOf[s]] = Append(@, Msg(s))]
            /\ UNCHANGED errChan
       ELSE /\ errChan' = [errChan EXCEPT ![chanOf[s]] = Append(@, Msg(s))]
            /\ UNCHANGED closeChan
  /\ nrep' = [nrep EXCEPT ![s] = @ + 1]

NoReport == UNCHANGED <<errChan, closeChan, nrep>>

\* ------------------------------------------------------------------ egress
\* buf := Get(); n, err := device.ReadPacket(buf)
EgressRead(s, res) ==
  /\ Running /\ eg[s].pc = "tunRead"
  /\ res \in TunReads(tunSeq + 1)
  /\ IF res.err # Nil
       THEN /\ Report(s, res.err)
            /\ eg' = [eg EXCEPT ![s] = Task("done", NoPkt)]
       ELSE /\ NoReport
            /\ eg' = [eg EXCEPT ![s] = Task("write", res.pkt)]
  /\ UNCHANGED <<http3, http2, cancelled, tunClosed, crashed, pc, err, cur, tr, chanOf, ing>>

\* icmp, err := ipConn.WritePacket(buf[:n]) and the classification of err
EgressWrite(s, send) ==
  /\ Running /\ eg[s].pc = "write"
  /\ send \in Sends(tr[s])
  /\ LET w == WritePacket(eg[s].pkt, send, cancelled) IN
       IF w.err # Nil
         THEN IF IsNetErrClosed(w.err)
                THEN /\ Report(s, w.err)
                     /\ eg' = [eg EXCEPT ![s] = Task("done", NoPkt)]
                ELSE /\ NoReport
                     /\ eg' = [eg EXCEPT ![s] = Task("tunRead", NoPkt)]
         ELSE /\ NoReport
              /\ eg' = [eg EXCEPT ![s] =
                          IF w.icmp # NoPkt THEN Task("icmp", w.icmp) ELSE Task("tunRead", NoPkt)]
  /\ UNCHANGED <<http3, http2, cancelled, tunClosed, crashed, pc, err, cur, tr, chanOf, ing>>

\* device.WritePacket(icmp)
EgressIcmp(s, res) ==
  /\ Running /\ eg[s].pc = "icmp"
  /\ res \in TunWrites
  /\ IF IsOsErrClosed(res)
       THEN /\ Report(s, res)
            /\ eg' = [eg EXCEPT ![s] = Task("done", NoPkt)]
       ELSE /\ NoReport
            /\ eg' = [eg EXCEPT ![s] = Task("tunRead", NoPkt)]
  /\ UNCHANGED <<http3, http2, cancelled, tunClosed, crashed, pc, err, cur, tr, chanOf, ing>>

\* ----------------------------------------------------------------- ingress
\* n, err := ipConn.ReadPacket(buf) and the classification of err
IngressRead(s, in) ==
  /\ Running /\ ing[s].pc = "read"
  /\ in \in Receives(tr[s], gwSeq + 1)
  /\ LET r == ReadPacket(tr[s].kind, in, cancelled) IN
       /\ crashed' = (r.r = "panic")
       /\ IF r.r = "ret" /\ r.err # Nil /\ IsNetErrClosed(r.err)
            THEN /\ Report(s, r.err)
                 /\ ing' = [ing EXCEPT ![s] = Task("done", NoPkt)]
            ELSE /\ NoReport
                 /\ ing' = [ing EXCEPT ![s] =
                      IF r.r = "ret" /\ r.err # Nil THEN Task("log", NoPkt)
                      ELSE IF r.r = "ret" THEN Task("tunWrite", Packet(r.id, 0, r.n, 0))
                      ELSE @]
  /\ UNCHANGED <<http3, http2, cancelled, tunClosed, pc, err, cur, tr, chanOf, eg>>

\* log.Printf("Error reading from IP connection ..."); continue
IngressLog(s) ==
  /\ Running /\ ing[s].pc = "log"
  /\ ing' = [ing EXCEPT ![s] = Task("read", NoPkt)]
  /\ UNCHANGED <<http3, http2, cancelled, tunClosed, crashed, pc, err, cur, tr,
                 chanOf, errChan, closeChan, nrep, eg>>

\* device.WritePacket(buf[:n]): any error ends the task
IngressWrite(s, res) ==
  /\ Running /\ ing[s].pc = "tunWrite"
  /\ res \in TunWrites
  /\ IF res # Nil
       THEN /\ Report(s, res)
            /\ ing' = [ing EXCEPT ![s] = Task("done", NoPkt)]
       ELSE /\ NoReport
            /\ ing' = [ing EXCEPT ![s] = Task("read", NoPkt)]
  /\ UNCHANGED <<http3, http2, cancelled, tunClosed, crashed, pc, err, cur, tr, chanOf, eg>>

\* ------------------------------------------------------------- environment
\* the caller cancels ctx
Cancel ==
  /\ Running /\ ~cancelled
  /\ cancelled' = TRUE
  /\ UNCHANGED <<http3, http2, tunClosed, crashed, pc, err, cur, tr,
                 chanOf, errChan, closeChan, nrep, eg, ing>>

\* the TUN device is closed
DeviceClose ==
  /\ Running /\ ~tunClosed
  /\ tunClosed' = TRUE
  /\ UNCHANGED <<http3, http2, cancelled, crashed, pc, err, cur, tr,
                 chanOf, errChan, closeChan, nrep, eg, ing>>

\* the gateway closes the transport of session s
GatewayClose(s) ==
  /\ Running /\ tr[s].st = "open"
  /\ tr' = [tr EXCEPT ![s].st = "dead"]
  /\ UNCHANGED <<http3, http2, cancelled, tunClosed, crashed, pc, err, cur,
                 chanOf, errChan, closeChan, nrep, eg, ing>>

\* ---------------------------------------------------------- specifications
Supervisor ==
  \/ LoopTop
  \/ \E res \in {"nil", "canceled", "other"} : ConnectHTTP3(res)
  \/ CloseFailed3
  \/ \E res \in {"nil", "other"} : ConnectHTTP2(res)
  \/ CloseFailed2
  \/ AttemptSleep
  \/ \E case \in {"ctx", "err", "close"} : Select(case)
  \/ CloseSession
  \/ SessionSleep

Egress(s) ==
  \/ \E res \in TunReads(tunSeq + 1) : EgressRead(s, res)
  \/ \E send \in Sends(tr[s]) : EgressWrite(s, send)
  \/ \E res \in TunWrites : EgressIcmp(s, res)

Ingress(s) ==
  \/ \E in \in Receives(tr[s], gwSeq + 1) : IngressRead(s, in)
  \/ IngressLog(s)
  \/ \E res \in TunWrites : IngressWrite(s, res)

Environment ==
  \/ Cancel
  \/ DeviceClose
  \/ \E s \in Sessions : GatewayClose(s)

Next ==
  /\ \/ Supervisor
     \/ \E s \in Sessions : Egress(s)
     \/ \E s \in Sessions : Ingress(s)
     \/ Environment
  /\ UNCHANGED <<flowVars, unitVars>>

Spec == Init /\ [][Next]_vars

\* ------------------------------------------------ connection specification
\* The supervisor with the object each connection attempt leaves in ipConn.
ConnConnectHTTP3(res, c) ==
  /\ ConnectHTTP3(res)
  /\ c \in (IF res = "nil" THEN {HTTP3Fields(TRUE, TRUE, TRUE)} ELSE ConnectHTTP3Returns)
  /\ ipConn' = Conn("h3", c)

ConnConnectHTTP2(res, c) ==
  /\ ConnectHTTP2(res)
  /\ c \in (IF res = "nil" THEN {HTTP2Fields(TRUE, TRUE)} ELSE ConnectHTTP2Returns)
  /\ ipConn' = Conn("h2", c)

ConnCloseFailed3 == CloseFailed3 /\ ipConn' = SupervisorClose(ipConn)
ConnCloseFailed2 == CloseFailed2 /\ ipConn' = SupervisorClose(ipConn)
ConnCloseSession == CloseSession /\ ipConn' = SupervisorClose(ipConn)

LedgerVars == <<tunSeq, gwSeq, tunRead, sent, recvd, tunWritten, icmpWritten>>

NextConn ==
  \/ LoopTop /\ UNCHANGED <<flowVars, unitVars>>
  \/ (\E res \in {"nil", "canceled", "other"} : \E c \in ConnectHTTP3Returns :
        ConnConnectHTTP3(res, c)) /\ UNCHANGED <<LedgerVars, unitVars>>
  \/ ConnCloseFailed3 /\ UNCHANGED <<LedgerVars, unitVars>>
  \/ (\E res \in {"nil", "other"} : \E c \in ConnectHTTP2Returns :
        ConnConnectHTTP2(res, c)) /\ UNCHANGED <<LedgerVars, unitVars>>
  \/ ConnCloseFailed2 /\ UNCHANGED <<LedgerVars, unitVars>>
  \/ AttemptSleep /\ UNCHANGED <<flowVars, unitVars>>
  \/ (\E case \in {"ctx", "err", "close"} : Select(case)) /\ UNCHANGED <<flowVars, unitVars>>
  \/ ConnCloseSession /\ UNCHANGED <<LedgerVars, unitVars>>
  \/ SessionSleep /\ UNCHANGED <<flowVars, unitVars>>
  \/ (\E s \in Sessions : Egress(s)) /\ UNCHANGED <<flowVars, unitVars>>
  \/ (\E s \in Sessions : Ingress(s)) /\ UNCHANGED <<flowVars, unitVars>>
  \/ Environment /\ UNCHANGED <<flowVars, unitVars>>

SpecConn == Init /\ [][NextConn]_vars

\* ------------------------------------------------- packet-flow specification
\* One session in its pump phase, with the packets told apart: the TUN
\* supplies packets 1, 2, ... to the egress task, the gateway supplies
\* datagrams / records 1, 2, ... to the ingress task; what each task reads
\* and what it passes on is recorded, in order.
InitFlow ==
  /\ cancelled = FALSE
  /\ tunClosed = FALSE
  /\ crashed = FALSE
  /\ pc = "select"
  /\ err = "nil"
  /\ cur = 1
  /\ \E k \in {"h3", "h2"} :
       /\ http3 = (k = "h3")
       /\ http2 = (k = "h2")
       /\ tr = [s \in Sessions |->
                  IF s = 1 THEN [kind |-> k, st |-> "open"] ELSE [kind |-> "none", st |-> "none"]]
  /\ chanOf = [s \in Sessions |-> IF s = 1 THEN MakeChan(1) ELSE 0]
  /\ errChan = [c \in Sessions |-> <<>>]
  /\ closeChan = [c \in Sessions |-> <<>>]
  /\ nrep = [s \in Sessions |-> 0]
  /\ eg = [s \in Sessions |-> IF s = 1 THEN Task("tunRead", NoPkt) ELSE Idle]
  /\ ing = [s \in Sessions |-> IF s = 1 THEN Task("read", NoPkt) ELSE Idle]
  /\ tunSeq = 0
  /\ gwSeq = 0
  /\ tunRead = [s \in Sessions |-> <<>>]
  /\ sent = [s \in Sessions |-> <<>>]
  /\ recvd = [s \in Sessions |-> <<>>]
  /\ tunWritten = [s \in Sessions |-> <<>>]
  /\ icmpWritten = [s \in Sessions |-> <<>>]
  /\ ipConn = NoConn
  /\ IdlePacket /\ IdleStream /\ IdlePool

FlowEgressRead(s, res) ==
  /\ EgressRead(s, res)
  /\ res.err = Nil => tunSeq < MaxPkts
  /\ tunSeq' = IF res.err = Nil THEN tunSeq + 1 ELSE tunSeq
  /\ tunRead' = IF res.err = Nil THEN [tunRead EXCEPT ![s] = Append(@, res.pkt.id)] ELSE tunRead
  /\ UNCHANGED <<gwSeq, sent, recvd, tunWritten, icmpWritten, ipConn>>

FlowEgressWrite(s, send) ==
  /\ EgressWrite(s, send)
  /\ sent' = IF WritePacket(eg[s].pkt, send, cancelled).sent
               THEN [sent EXCEPT ![s] = Append(@, eg[s].pkt.id)] ELSE sent
  /\ UNCHANGED <<tunSeq, gwSeq, tunRead, recvd, tunWritten, icmpWritten, ipConn>>

\* device.WritePacket(icmp): the reply answers packet eg[s].pkt.id
FlowEgressIcmp(s, res) ==
  /\ EgressIcmp(s, res)
  /\ icmpWritten' = IF res = Nil THEN [icmpWritten EXCEPT ![s] = Append(@, eg[s].pkt.id)]
                    ELSE icmpWritten
  /\ UNCHANGED <<tunSeq, gwSeq, tunRead, sent, recvd, tunWritten, ipConn>>

FlowIngressRead(s, in) ==
  /\ IngressRead(s, in)
  /\ in.t = "data" => gwSeq < MaxPkts
  /\ gwSeq' = IF in.t = "data" THEN gwSeq + 1 ELSE gwSeq
  /\ recvd' = IF in.t = "data" /\ in.ctx = HTTPDatagramContextID /\ ~crashed'
                THEN [recvd EXCEPT ![s] = Append(@, in.id)] ELSE recvd
  /\ UNCHANGED <<tunSeq, tunRead, sent, tunWritten, icmpWritten, ipConn>>

FlowIngressWrite(s, res) ==
  /\ IngressWrite(s, res)
  /\ tunWritten' = IF res = Nil THEN [tunWritten EXCEPT ![s] = Append(@, ing[s].pkt.id)]
                   ELSE tunWritten
  /\ UNCHANGED <<tunSeq, gwSeq, tunRead, sent, recvd, icmpWritten, ipConn>>

NextFlow ==
  \/ (\E res \in TunReads(tunSeq + 1) : FlowEgressRead(1, res)) /\ UNCHANGED unitVars
  \/ (\E send \in Sends(tr[1]) : FlowEgressWrite(1, send)) /\ UNCHANGED unitVars
  \/ (\E res \in TunWrites : FlowEgressIcmp(1, res)) /\ UNCHANGED unitVars
  \/ (\E in \in Receives(tr[1], gwSeq + 1) : FlowIngressRead(1, in)) /\ UNCHANGED unitVars
  \/ IngressLog(1) /\ UNCHANGED <<flowVars, unitVars>>
  \/ (\E res \in TunWrites : FlowIngressWrite(1, res)) /\ UNCHANGED unitVars
  \/ (\E case \in {"ctx", "err", "close"} : Select(case)) /\ UNCHANGED <<flowVars, unitVars>>
  \/ CloseSession /\ UNCHANGED <<flowVars, unitVars>>
  \/ Cancel /\ UNCHANGED <<flowVars, unitVars>>
  \/ DeviceClose /\ UNCHANGED <<flowVars, unitVars>>
  \/ GatewayClose(1) /\ UNCHANGED <<flowVars, unitVars>>

SpecFlow == InitFlow /\ [][NextFlow]_vars

\* Fairness: the supervisor and the goroutines are scheduled and every call
\* that does not wait for the environment returns. Nothing is assumed of the
\* environment: the caller need not cancel, the TUN need not yield a packet,
\* the gateway need not send one.
EgressRuns(s) ==
  /\ \/ tunClosed /\ \E res \in TunReads(tunSeq + 1) : EgressRead(s, res)
     \/ \E send \in Sends(tr[s]) : EgressWrite(s, send)
     \/ \E res \in TunWrites : EgressIcmp(s, res)
  /\ UNCHANGED <<flowVars, unitVars>>

IngressRuns(s) ==
  /\ \/ /\ tr[s].st # "open" \/ (cancelled /\ tr[s].kind = "h3")
        /\ \E in \in Receives(tr[s], gwSeq + 1) : IngressRead(s, in)
     \/ IngressLog(s)
     \/ \E res \in TunWrites : IngressWrite(s, res)
  /\ UNCHANGED <<flowVars, unitVars>>

FairSpec ==
  /\ Spec
  /\ WF_vars(Supervisor /\ UNCHANGED <<flowVars, unitVars>>)
  /\ \A s \in Sessions : WF_vars(EgressRuns(s)) /\ WF_vars(IngressRuns(s))

\* ------------------------------------------------ the state outside a specification
\* The tunnel before MaintainTunnel is called.
IdleCore ==
  /\ http3 = FALSE /\ http2 = FALSE
  /\ cancelled = FALSE /\ tunClosed = FALSE /\ crashed = FALSE
  /\ pc = "loop" /\ err = "nil" /\ cur = 0
  /\ tr = [s \in Sessions |-> [kind |-> "none", st |-> "none"]]
  /\ chanOf = [s \in Sessions |-> 0]
  /\ errChan = [c \in Sessions |-> <<>>]
  /\ closeChan = [c \in Sessions |-> <<>>]
  /\ nrep = [s \in Sessions |-> 0]
  /\ eg = [s \in Sessions |-> Idle]
  /\ ing = [s \in Sessions |-> Idle]

IdleFlow ==
  /\ tunSeq = 0 /\ gwSeq = 0
  /\ tunRead = [s \in Sessions |-> <<>>]
  /\ sent = [s \in Sessions |-> <<>>]
  /\ recvd = [s \in Sessions |-> <<>>]
  /\ tunWritten = [s \in Sessions |-> <<>>]
  /\ icmpWritten = [s \in Sessions |-> <<>>]
  /\ ipConn = NoConn

\* ---------------------------------------------------- packet specification
\* Single calls of WritePacket and ReadPacket of either transport, on packets,
\* datagrams and records given byte by byte: the arguments are chosen at the
\* start, the call is the one step.
\* A packet of l bytes: version nibble v, b7 and b8 at (Go) offsets 7 and 8,
\* every other byte told by its offset and salt.
MkPacket(v, l, b7, b8, salt) ==
  [i \in 1..l |-> IF i = 1 THEN v * 16 + 5
                  ELSE IF i = 8 THEN b7
                  ELSE IF i = 9 THEN b8
                  ELSE (i + salt) % 256]

\* Packets handed to WritePacket: IPv4, IPv6 and neither; empty, around the
\* two header lengths, up to the MTU; TTL / hop limit 0, 1, 2.
WritePackets ==
  { MkPacket(v, l, b7, b8, salt) :
      v \in {4, 5, 6},
      l \in {0, 1, IPv4HeaderLen - 1, IPv4HeaderLen, IPv4HeaderLen + 1,
             IPv6HeaderLen - 1, IPv6HeaderLen, IPv6HeaderLen + 1, Mtu - 1, Mtu},
      b7 \in {0, 1, 2}, b8 \in {0, 1, 2}, salt \in {0, 200} }

\* Results of SendDatagram / writer.Write
WriteSends == {Nil, DatagramTooLarge(Mtu - 1), LibClosed, Other}

\* Datagrams ReceiveDatagram may hand over: context id 0, 1 and 64 (a
\* two-byte varint), payloads up to one byte more than the buffer; an empty
\* datagram and one whose varint is cut short.
ReadDatagrams ==
  { quicvarintAppend(c) \o MkPacket(4, l, 0, 64, 0) :
      c \in {0, 1, 64}, l \in {0, IPv4HeaderLen, Mtu, Mtu + 1} }
    \cup { <<>>, <<64>> }

\* Body streams the reads of c.reader may meet: one whole record followed by
\* the start of another, a record cut short, nothing at all.
ReadStreams ==
  { quicvarintAppend(c) \o quicvarintAppend(l) \o MkPacket(4, l - cut, 0, 64, 0) \o more :
      c \in {0, 1, 64}, l \in {1, IPv4HeaderLen, Mtu, Mtu + 1}, cut \in {0, 1},
      more \in {<<>>, <<0>>} }
    \cup { <<>>, <<0>>, <<0, 64>> }

\* The arguments of a call that is still to be made.
WriteCall(kind, b, send, done) ==
  [NoWrite EXCEPT !.kind = kind, !.pkt = b, !.send = send, !.done = done]
ReadCall(kind, raw, fail, done) ==
  [NoRead EXCEPT !.kind = kind, !.raw = raw, !.fail = fail, !.done = done]

CloseCall(kind, c, fails) == [NoClose EXCEPT !.kind = kind, !.c = c, !.fails = fails]

\* The components of c that are not nil.
Components(c) ==
  (IF c.conn THEN {"conn"} ELSE {}) \cup (IF c.transport THEN {"transport"} ELSE {})
    \cup (IF c.udpConn THEN {"udpConn"} ELSE {})

CloseCalls ==
  { CloseCall("h3", c, f) : c \in ConnectHTTP3Returns, f \in SUBSET {"conn", "transport", "udpConn"} }
    \cup { CloseCall("h2", c, f) : c \in ConnectHTTP2Returns, f \in SUBSET {"conn"} }

InitPacket ==
  /\ IdleCore /\ IdleFlow /\ IdleStream /\ IdlePool
  /\ \/ /\ wp \in { WriteCall(kind, b, send, done) :
                      kind \in {"h3", "h2"}, b \in WritePackets,
                      send \in WriteSends, done \in BOOLEAN }
        /\ rp = NoRead /\ cp = NoClose
     \/ /\ wp = NoWrite /\ cp = NoClose
        /\ rp \in { ReadCall("h3", data, Nil, done) : data \in ReadDatagrams, done \in BOOLEAN }
             \cup { ReadCall("h3", <<>>, fail, done) :
                      fail \in {H3NoError, LibClosed, Other}, done \in BOOLEAN }
             \cup { ReadCall("h2", s, Nil, done) : s \in ReadStreams, done \in BOOLEAN }
     \/ /\ wp = NoWrite /\ rp = NoRead
        /\ cp \in { x \in CloseCalls : x.fails \subseteq Components(x.c) }

\* WritePacket of the transport wp.kind on wp.pkt
CallWritePacket ==
  /\ wp.kind # "none" /\ ~wp.called
  /\ wp' = [wp EXCEPT !.called = TRUE,
                      !.check = CheckPacket(PacketOf(0, wp.pkt)),
                      !.out = WritePacketBytes(wp.kind, wp.pkt, wp.send, wp.done)]
  /\ UNCHANGED <<rp, cp>>

\* HTTP3Connection.ReadPacket on the datagram rp.raw, or on the failure
\* rp.fail of ReceiveDatagram: one turn of its loop
CallHTTP3ReadPacket ==
  /\ rp.kind = "h3" /\ ~rp.called
  /\ LET in == IF rp.fail = Nil THEN DatagramIn(rp.raw) ELSE Failure(rp.fail, "-")
         out == HTTP3ReadPacket(in, rp.done)
     IN rp' = [rp EXCEPT !.called = TRUE, !.in = in, !.out = out,
                  !.buf = IF out.r = "ret" /\ out.err = Nil THEN DatagramPayload(rp.raw) ELSE <<>>]
  /\ UNCHANGED <<wp, cp>>

\* HTTP2Connection.ReadPacket on the body stream rp.raw: one turn of its loop
CallHTTP2ReadPacket ==
  /\ rp.kind = "h2" /\ ~rp.called
  /\ LET in == RecordIn(rp.raw)
         out == HTTP2ReadPacket(in, rp.done)
     IN rp' = [rp EXCEPT !.called = TRUE, !.in = in, !.out = out,
                  !.buf = IF out.r = "ret" /\ out.err = Nil THEN RecordPayload(rp.raw) ELSE <<>>]
  /\ UNCHANGED <<wp, cp>>

\* Close of the transport cp.kind on the object cp.c
CallClose ==
  /\ cp.kind # "none" /\ ~cp.called
  /\ cp' = [cp EXCEPT !.called = TRUE,
                      !.out = IF cp.kind = "h3" THEN HTTP3Close(cp.c, cp.fails)
                              ELSE HTTP2Close(cp.c, cp.fails)]
  /\ UNCHANGED <<wp, rp>>

NextPacket ==
  \/ CallClose /\ UNCHANGED <<coreVars, flowVars, streamVars, poolVars>>
  \/ CallWritePacket /\ UNCHANGED <<coreVars, flowVars, streamVars, poolVars>>
  \/ CallHTTP3ReadPacket /\ UNCHANGED <<coreVars, flowVars, streamVars, poolVars>>
  \/ CallHTTP2ReadPacket /\ UNCHANGED <<coreVars, flowVars, streamVars, poolVars>>

SpecPacket == InitPacket /\ [][NextPacket]_vars

\* ---------------------------------------------------- stream specification
\* The HTTP/2 body stream as a pipe: WritePacket appends its record, ReadPacket
\* with a buffer of Mtu bytes takes the first record off.
StreamPackets ==
  { MkPacket(4, l, 0, ttl, 0) : l \in {0, IPv4HeaderLen, Mtu - 1, Mtu}, ttl \in {1, 64} }

InitStream == IdleCore /\ IdleFlow /\ IdlePacket /\ IdleStream /\ IdlePool

StreamWrite(b) ==
  /\ Len(wrote) < MaxPkts
  /\ wrote' = Append(wrote, b)
  /\ stream' = stream \o HTTP2WritePacket(b, Nil, FALSE).data
  /\ UNCHANGED got

\* ReadPacket until it returns: records of another context id are passed
\* over; a failed or panicking read ends the stream (marked <<-1>> in got).
StreamRead ==
  /\ stream # <<>>
  /\ LET r == HTTP2ReadPacket(RecordIn(stream), FALSE) IN
       IF r.r = "ret" /\ r.err = Nil
         THEN /\ got' = Append(got, RecordPayload(stream))
              /\ stream' = SubSeq(stream, RecordLen(stream) + 1, Len(stream))
       ELSE IF r.r = "again"
         THEN /\ got' = got
              /\ stream' = SubSeq(stream, RecordLen(stream) + 1, Len(stream))
       ELSE /\ got' = Append(got, <<-1>>)
            /\ stream' = <<>>
  /\ UNCHANGED wrote

NextStream ==
  \/ (\E b \in StreamPackets : StreamWrite(b)) /\ UNCHANGED <<coreVars, flowVars, packetVars, poolVars>>
  \/ StreamRead /\ UNCHANGED <<coreVars, flowVars, packetVars, poolVars>>

SpecStream == InitStream /\ [][NextStream]_vars

\* ------------------------------------------------------ pool specification
\* Any sequence of Get and Put on one NetBuffer of capacity Mtu.
InitPool == IdleCore /\ IdleFlow /\ IdlePacket /\ IdleStream /\ IdlePool

Arrays == {x.arr : x \in pool \cup held \cup refused}

\* Get hands out a slice the pool holds
GetPooled(x) ==
  /\ x \in pool
  /\ pool' = pool \ {x}
  /\ held' = held \cup {x}
  /\ lastGet' = x
  /\ UNCHANGED <<refused, taskBuf>>

\* Get finds the pool empty (or emptied by the collector): New makes a slice
GetNew ==
  /\ Cardinality(Arrays) < MaxBufs
  /\ LET x == NewSlice(Cardinality(Arrays) + 1) IN
       /\ held' = held \cup {x}
       /\ lastGet' = x
  /\ UNCHANGED <<pool, refused, taskBuf>>

\* Put(buf), buf a re-slicing of a slice h the caller holds
Put(h, buf) ==
  /\ h \in held /\ buf \in Reslices(h)
  /\ held' = held \ {h}
  /\ IF PutTakes(buf)
       THEN pool' = pool \cup {buf} /\ UNCHANGED refused
       ELSE refused' = refused \cup {buf} /\ UNCHANGED pool
  /\ lastGet' = NoSlice
  /\ UNCHANGED taskBuf

NextPool ==
  \/ (\E x \in pool : GetPooled(x)) /\ UNCHANGED <<coreVars, flowVars, packetVars, streamVars>>
  \/ GetNew /\ UNCHANGED <<coreVars, flowVars, packetVars, streamVars>>
  \/ (\E h \in held : \E buf \in Reslices(h) : Put(h, buf))
       /\ UNCHANGED <<coreVars, flowVars, packetVars, streamVars>>

SpecPool == InitPool /\ [][NextPool]_vars

\* ---------------------------------------------------- buffer specification
\* One session in its pump phase with the buffers of its two goroutines: which
\* slice each goroutine took from packetBufferPool and when it puts it back.

\* packetBufferPool.Get(): a slice the pool holds, or a new one
Gets == pool \cup (IF Cardinality(Arrays) < MaxBufs THEN {NewSlice(Cardinality(Arrays) + 1)} ELSE {})

\* A variant of IngressPuts that puts buf back after every ReadPacket.
IngressPutsAlways(next, crash) == TRUE

\* defer packetBufferPool.Put(buf): runs when the ingress goroutine returns or
\* panics
IngressPuts(next, crash) == next.pc = "done" \/ crash

\* The egress goroutine puts buf back after a failed device.ReadPacket
EgressPutsOnRead(res) == res.err # Nil

\* packetBufferPool.Put(buf) by a goroutine
TaskPut(buf) ==
  /\ held' = held \ {buf}
  /\ IF PutTakes(buf)
       THEN pool' = pool \cup {buf} /\ UNCHANGED refused
       ELSE refused' = refused \cup {buf} /\ UNCHANGED pool
  /\ UNCHANGED lastGet

NoPut == UNCHANGED <<pool, held, refused, lastGet>>

\* buf := packetBufferPool.Get() at the top of the egress loop
BufEgressGet(s, x) ==
  /\ Running /\ eg[s].pc = "tunRead" /\ ~taskBuf.egGot
  /\ x \in Gets
  /\ pool' = pool \ {x}
  /\ held' = held \cup {x}
  /\ lastGet' = x
  /\ taskBuf' = [taskBuf EXCEPT !.eg = x, !.egGot = TRUE, !.egHas = TRUE]
  /\ UNCHANGED refused

\* n, err := device.ReadPacket(buf), Put(buf) on an error
BufEgressRead(s, res) ==
  /\ taskBuf.egGot
  /\ EgressRead(s, res)
  /\ IF EgressPutsOnRead(res)
       THEN /\ TaskPut(taskBuf.eg)
            /\ taskBuf' = [taskBuf EXCEPT !.egGot = FALSE, !.egHas = FALSE,
                                          !.twice = @ \/ ~taskBuf.egHas]
       ELSE /\ NoPut
            /\ taskBuf' = [taskBuf EXCEPT !.egGot = FALSE]

\* ipConn.WritePacket(buf[:n]), Put(buf) on the error path and on the
\* success path
BufEgressWrite(s, send) ==
  /\ EgressWrite(s, send)
  /\ TaskPut(taskBuf.eg)
  /\ taskBuf' = [taskBuf EXCEPT !.egHas = FALSE, !.twice = @ \/ ~taskBuf.egHas]

\* buf := packetBufferPool.Get() when the ingress goroutine starts
BufIngressGet(s, x) ==
  /\ Running /\ ing[s].pc = "read" /\ ~taskBuf.ingGot
  /\ x \in Gets
  /\ pool' = pool \ {x}
  /\ held' = held \cup {x}
  /\ lastGet' = x
  /\ taskBuf' = [taskBuf EXCEPT !.ing = x, !.ingGot = TRUE, !.ingHas = TRUE]
  /\ UNCHANGED refused

\* What a step of the ingress goroutine does to its buffer
IngressStepPut(s) ==
  IF IngressPuts(ing'[s], crashed')
    THEN /\ TaskPut(taskBuf.ing)
         /\ taskBuf' = [taskBuf EXCEPT !.ingHas = FALSE, !.twice = @ \/ ~taskBuf.ingHas]
    ELSE NoPut /\ UNCHANGED taskBuf

BufIngressRead(s, in) ==
  /\ taskBuf.ingGot
  /\ IngressRead(s, in)
  /\ IngressStepPut(s)

BufIngressWrite(s, res) ==
  /\ IngressWrite(s, res)
  /\ IngressStepPut(s)

InitBuf == InitFlow

NextBuf ==
  \/ (\E x \in Gets : BufEgressGet(1, x))
       /\ UNCHANGED <<coreVars, flowVars, packetVars, streamVars>>
  \/ (\E res \in TunReads(tunSeq + 1) : BufEgressRead(1, res))
       /\ UNCHANGED <<flowVars, packetVars, streamVars>>
  \/ (\E send \in Sends(tr[1]) : BufEgressWrite(1, send))
       /\ UNCHANGED <<flowVars, packetVars, streamVars>>
  \/ (\E res \in TunWrites : EgressIcmp(1, res)) /\ UNCHANGED <<flowVars, unitVars>>
  \/ (\E x \in Gets : BufIngressGet(1, x))
       /\ UNCHANGED <<coreVars, flowVars, packetVars, streamVars>>
  \/ (\E in \in Receives(tr[1], gwSeq + 1) : BufIngressRead(1, in))
       /\ UNCHANGED <<flowVars, packetVars, streamVars>>
  \/ IngressLog(1) /\ UNCHANGED <<flowVars, unitVars>>
  \/ (\E res \in TunWrites : BufIngressWrite(1, res))
       /\ UNCHANGED <<flowVars, packetVars, streamVars>>
  \/ (\E case \in {"ctx", "err", "close"} : Select(case)) /\ UNCHANGED <<flowVars, unitVars>>
  \/ CloseSession /\ UNCHANGED <<flowVars, unitVars>>
  \/ Cancel /\ UNCHANGED <<flowVars, unitVars>>
  \/ DeviceClose /\ UNCHANGED <<flowVars, unitVars>>
  \/ GatewayClose(1) /\ UNCHANGED <<flowVars, unitVars>>

SpecBuf == InitBuf /\ [][NextBuf]_vars

\* ------------------------------------------------------------------ claims
\* The channels the running iteration of the supervisor selects on.
CurErr == errChan[chanOf[cur]]
CurClose == closeChan[chanOf[cur]]

\* C1: once ctx is cancelled the supervisor never goes round the retry loop
\* again: with a transport enabled, it does not leave a sleep (or anything
\* else) for the top of the loop, where the next attempt starts.
C1_NoRetryAfterCancel ==
  [][(cancelled /\ (http3 \/ http2)) => ~(pc # "loop" /\ pc' = "loop")]_vars

\* C2: in the select, once ctx is cancelled, the supervisor takes the
\* cancellation case (close, return) and neither the session-error case nor
\* the device-closed case, whatever is pending on the channels.
C2_CancellationWins ==
  [][(pc = "select" /\ cancelled) => pc' \in {"select", "ctxClose"}]_vars

\* C3: if the gateway closes the transport of the running session, the
\* supervisor eventually closes that transport (to reconnect), unless ctx is
\* cancelled, the device is closed or the process dies.
C3_GatewayCloseReconnects ==
  \A s \in Sessions :
    (tr[s].st = "dead" /\ cur = s /\ pc = "select")
      ~> (tr[s].st = "closed" \/ cancelled \/ tunClosed \/ crashed)

\* C4: once a task of the running session has reported a closed device, the
\* supervisor leaves the select only to close the transport and terminate
\* (device-closed case, or the cancellation case): never to reconnect.
C4_DeviceClosedTerminates ==
  [][(pc = "select" /\ CurClose # <<>>) => pc' \in {"select", "devClose", "ctxClose"}]_vars

\* C5: a session error received in the select is followed by, in this order,
\* the close of the session's transport, the sleep, the top of the loop, and
\* there the first attempt is HTTP/3 whenever HTTP/3 is enabled (HTTP/2
\* otherwise), whichever transport the failed session used.
C5_SessionErrorSequence ==
  [][ /\ (pc = "select" /\ errChan' # errChan /\ pc' # pc) => pc' = "errClose"
      /\ pc = "errClose" => (pc' \in {"errClose", "errSleep"}
                             /\ (pc' = "errSleep" => tr'[cur].st = "closed"))
      /\ pc = "errSleep" => (pc' \in {"errSleep", "loop"} /\ tr[cur].st = "closed")
      /\ (pc = "loop" /\ http3) => pc' \in {"loop", "conn3"}
      /\ (pc = "loop" /\ ~http3 /\ http2) => pc' \in {"loop", "conn2"}
    ]_vars

\* C5 witness: a new HTTP/3 attempt is under way after an HTTP/2 session
\* ended with a session error, ctx not cancelled.
C5_Witness ==
  /\ pc = "conn3" /\ ~cancelled
  /\ cur > 0 /\ tr[cur].kind = "h2" /\ tr[cur].st = "closed"

\* C6: HTTP/2 is attempted only when HTTP/3 is disabled or its attempt of
\* this iteration failed with an error other than cancellation; a successful
\* attempt leads straight to the pump phase; the sleep of the attempt loop is
\* reached only when no enabled transport connected in the iteration.
C6_AttemptLoopOrder ==
  [][ /\ (pc # "conn2" /\ pc' = "conn2") =>
            \/ pc = "loop" /\ ~http3 /\ http2
            \/ pc = "close3" /\ err = "other" /\ http2
      /\ (pc \in {"conn3", "conn2"} /\ cur' # cur) =>
            (pc' = "select" /\ eg'[cur'].pc = "tunRead" /\ ing'[cur'].pc = "read"
             /\ tr'[cur'].kind = (IF pc = "conn3" THEN "h3" ELSE "h2"))
      /\ (pc # "sleep" /\ pc' = "sleep") =>
            /\ cur' = cur
            /\ \/ pc = "loop" /\ ~http3 /\ ~http2
               \/ pc = "close3" /\ err = "other" /\ ~http2
               \/ pc = "close2" /\ err = "other"
    ]_vars

\* C6 witness: the pump phase of an HTTP/2 session although HTTP/3 is enabled
\* (its attempt failed), the first session of the run.
C6_Witness ==
  /\ pc = "select" /\ http3
  /\ cur = 1 /\ tr[1].kind = "h2" /\ tr[1].st = "open"

\* C7: at most one goroutine is inside device.ReadPacket at any moment.
C7_SingleTunReader ==
  Cardinality({s \in Sessions : eg[s].pc = "tunRead"}) <= 1

\* C8: the report the supervisor takes from the select is the one the
\* session's tasks made first.
C8_FirstReportWins ==
  [][ /\ (pc = "select" /\ pc' = "errClose") => Head(CurErr).ord = 1
      /\ (pc = "select" /\ pc' = "devClose") => Head(CurClose).ord = 1
    ]_vars

\* C9: whatever the supervisor can receive in the select of a session was
\* reported by one of that session's own two tasks.
C9_ErrorsStayInSession ==
  pc = "select" =>
    /\ \A i \in 1..Len(CurErr) : CurErr[i].from = cur
    /\ \A i \in 1..Len(CurClose) : CurClose[i].from = cur

\* C9 witness: the supervisor pumps the second session while a report of a
\* task of the first session, made after that session ended, sits in the
\* first session's channel.
C9_Witness ==
  /\ pc = "select" /\ cur = 2
  /\ nrep[1] = 2
  /\ errChan[chanOf[1]] # <<>> \/ closeChan[chanOf[1]] # <<>>
  /\ CurErr = <<>> /\ CurClose = <<>>

\* a is b with some of its elements left out, the order kept
RECURSIVE IsSubseq(_, _)
IsSubseq(a, b) ==
  IF a = <<>> THEN TRUE
  ELSE IF b = <<>> THEN FALSE
  ELSE IF Head(a) = Head(b) THEN IsSubseq(Tail(a), Tail(b))
  ELSE IsSubseq(a, Tail(b))

\* C10: in each direction of the session the packets passed on are, in the
\* same order, some of the packets read: what egress sent on the transport
\* is a subsequence of what it read from the TUN, and what ingress wrote to
\* the TUN is a subsequence of the context-id-0 packets the transport took
\* from the gateway (a packet is identified by its id; HTTP/3 ReadPacket
\* cuts a packet longer than the buffer down to the buffer).
C10_OrderPreserved ==
  \A s \in Sessions :
    /\ IsSubseq(sent[s], tunRead[s])
    /\ IsSubseq(tunWritten[s], recvd[s])

\* C10 witness: both directions have passed on two packets with one left
\* out in between (answered with ICMP, or carrying another context id).
C10_Witness ==
  /\ tunRead[1] = <<1, 2, 3>> /\ sent[1] = <<1, 3>>
  /\ gwSeq = 3 /\ tunWritten[1] = <<1, 3>>

\* C11: WritePacket, of either transport, answers every IPv4 packet of 20
\* bytes or more whose TTL byte (offset 8) is 0 or 1 with no error and an
\* IPv4 packet from the packet's destination to its source carrying ICMP type
\* 11 code 0; and every IPv6 packet of 40 bytes or more whose hop limit
\* (offset 7) is 0 or 1 with an IPv6 packet, addresses swapped likewise,
\* carrying ICMPv6 type 3 code 0.
C11_HopLimitReply ==
  wp.called =>
    LET b == wp.pkt
        o == wp.out
    IN /\ (Len(b) >= 20 /\ b[1] \div 16 = 4 /\ b[9] <= 1) =>
            /\ o.err = Nil /\ Len(o.icmp) > 20 /\ o.icmp[1] \div 16 = 4
            /\ SubSeq(o.icmp, 13, 16) = SubSeq(b, 17, 20)
            /\ SubSeq(o.icmp, 17, 20) = SubSeq(b, 13, 16)
            /\ o.icmp[21] = 11 /\ o.icmp[22] = 0
       /\ (Len(b) >= 40 /\ b[1] \div 16 = 6 /\ b[8] <= 1) =>
            /\ o.err = Nil /\ Len(o.icmp) > 40 /\ o.icmp[1] \div 16 = 6
            /\ SubSeq(o.icmp, 9, 24) = SubSeq(b, 25, 40)
            /\ SubSeq(o.icmp, 25, 40) = SubSeq(b, 9, 24)
            /\ o.icmp[41] = 3 /\ o.icmp[42] = 0

\* C11 witness: the HTTP/2 transport has answered an IPv6 packet whose hop
\* limit is 1 (the byte at the offset of the IPv4 TTL being 2).
C11_Witness ==
  /\ wp.called /\ wp.kind = "h2" /\ wp.send = Nil
  /\ Len(wp.pkt) = Mtu /\ wp.pkt[1] \div 16 = 6 /\ wp.pkt[8] = 1 /\ wp.pkt[9] = 2
  /\ Len(wp.out.icmp) > 40

\* The case of C12: the packet passed CheckPacket, the send failed with a
\* DatagramTooLargeError, ctx is not done.
TooLargeCase ==
  wp.called /\ wp.check = Nil /\ wp.send.e = "DatagramTooLarge" /\ ~wp.done

\* the 32-bit big-endian number at (Go) offset i of b
Word32At(b, i) == b[i + 1] * 16777216 + b[i + 2] * 65536 + b[i + 3] * 256 + b[i + 4]

\* C12 as stated: in that case WritePacket returns, for every packet, an ICMP
\* reply and no error.
C12_TooLargeReplyAnyPacket ==
  TooLargeCase => (wp.out.err = Nil /\ Len(wp.out.icmp) > 0)

\* C12, amended: in that case WritePacket returns, for every IPv4 packet of 20
\* bytes or more and every IPv6 packet of 40 bytes or more, no error and a
\* reply from the packet's destination to its source carrying ICMP type 3
\* code 4 (IPv4) or ICMPv6 type 2 (IPv6) with MTU = the maximum the send
\* reported; for every other packet (empty, shorter than its header, neither
\* IPv4 nor IPv6) it returns no reply and an error, which is never the
\* DatagramTooLargeError itself.
C12_TooLargeReply ==
  TooLargeCase =>
    LET b == wp.pkt
        o == wp.out
    IN /\ o.err.e # "DatagramTooLarge"
       /\ (Len(b) >= 20 /\ b[1] \div 16 = 4) =>
            /\ o.err = Nil /\ Len(o.icmp) > 20 /\ o.icmp[1] \div 16 = 4
            /\ SubSeq(o.icmp, 13, 16) = SubSeq(b, 17, 20)
            /\ SubSeq(o.icmp, 17, 20) = SubSeq(b, 13, 16)
            /\ o.icmp[21] = 3 /\ o.icmp[22] = 4
            /\ Word32At(o.icmp, 24) = wp.send.v
       /\ (Len(b) >= 40 /\ b[1] \div 16 = 6) =>
            /\ o.err = Nil /\ Len(o.icmp) > 40 /\ o.icmp[1] \div 16 = 6
            /\ SubSeq(o.icmp, 9, 24) = SubSeq(b, 25, 40)
            /\ SubSeq(o.icmp, 25, 40) = SubSeq(b, 9, 24)
            /\ o.icmp[41] = 2 /\ o.icmp[42] = 0
            /\ Word32At(o.icmp, 44) = wp.send.v
       /\ ~(Len(b) >= 20 /\ b[1] \div 16 = 4) /\ ~(Len(b) >= 40 /\ b[1] \div 16 = 6) =>
            o.err # Nil /\ o.icmp = <<>>

\* C12 witness: the HTTP/3 transport has answered a full-size IPv4 packet
\* whose send failed with DatagramTooLargeError.
C12_Witness ==
  /\ TooLargeCase /\ wp.kind = "h3"
  /\ Len(wp.pkt) = Mtu /\ wp.pkt[1] \div 16 = 4 /\ wp.pkt[9] = 2
  /\ Len(wp.out.icmp) > 20

\* C13: a datagram or record whose context id is not 0 is never returned by
\* ReadPacket: the call passes it over and goes on with the next one, or it
\* returns net.ErrClosed when ctx is done.
C13_OtherContextSkipped ==
  (rp.called /\ rp.in.t = "data" /\ rp.in.ctx # 0) =>
    /\ rp.buf = <<>>
    /\ \/ rp.out = Again
       \/ rp.done /\ rp.out = Returned(0, 0, NetErrClosed)

\* a is the beginning of b
IsPrefix(a, b) == Len(a) <= Len(b) /\ a = SubSeq(b, 1, Len(a))

\* the packets of w that CheckPacket lets through
PassesInspector(b) == CheckPacket(PacketOf(0, b)) = Nil
Accepted(w) == SelectSeq(w, PassesInspector)

\* C14 as stated: whatever packets of at most MTU bytes were handed to
\* WritePacket of the HTTP/2 transport, ReadPacket returns exactly them, in
\* order.
C14_RoundTripAnyPacket ==
  /\ IsPrefix(got, wrote)
  /\ stream = <<>> => got = wrote

\* C14, amended: ReadPacket returns, in order and byte for byte, exactly the
\* packets handed to WritePacket that passed CheckPacket (a packet whose TTL
\* is used up is answered with ICMP and leaves nothing on the stream).
C14_RoundTrip ==
  /\ IsPrefix(got, Accepted(wrote))
  /\ stream = <<>> => got = Accepted(wrote)

\* C14 witness: two packets written and read back, the first with a one-byte
\* length varint, the second with a two-byte one.
C14_Witness ==
  /\ Len(wrote) = 2 /\ got = wrote /\ stream = <<>>
  /\ Len(got[1]) = Mtu - 1 /\ Len(got[2]) = Mtu

\* C15: a slice passed to Put with a capacity other than the pool's is not
\* kept by the pool and is never what a later Get returns: every slice Get
\* returns has the capacity of the pool.
C15_RefusedNeverReturned ==
  /\ pool \cap refused = {}
  /\ \A x \in pool : x.cap = Mtu
  /\ lastGet # NoSlice => (lastGet.cap = Mtu /\ lastGet \notin refused)

\* C15 witness: Put has refused a slice of lowered capacity, and a Get after
\* that returned a slice that had been put back (its length is not the one
\* New gives).
C15_Witness ==
  /\ refused # {}
  /\ lastGet # NoSlice /\ lastGet.len < Mtu

\* C16: every slice Get returns has len equal to the capacity of the pool.
C16_GetFullLength ==
  lastGet # NoSlice => lastGet.len = Mtu

\* C17: CheckPacket returns DatagramHopLimitExceeded{b[8]} exactly for an
\* IPv4 packet of 20 bytes or more with b[8] <= 1, DatagramHopLimitExceeded{b[7]}
\* exactly for an IPv6 packet of 40 bytes or more with b[7] <= 1, and nil for
\* every other input: empty, shorter than its header, another version,
\* TTL / hop limit of 2 or more.
C17_CheckPacketVerdict ==
  wp.called =>
    LET b == wp.pkt IN
      wp.check = IF Len(b) >= 20 /\ b[1] \div 16 = 4 /\ b[9] <= 1
                   THEN [e |-> "HopLimitExceeded", v |-> b[9]]
                 ELSE IF Len(b) >= 40 /\ b[1] \div 16 = 6 /\ b[8] <= 1
                   THEN [e |-> "HopLimitExceeded", v |-> b[8]]
                 ELSE [e |-> "nil", v |-> 0]

\* C17 witness: an IPv6 packet of exactly 40 bytes with hop limit 0, the byte
\* at the offset of the IPv4 TTL being 2, has been found to exceed its limit.
C17_Witness ==
  /\ wp.called /\ Len(wp.pkt) = 40 /\ wp.pkt[1] \div 16 = 6
  /\ wp.pkt[8] = 0 /\ wp.pkt[9] = 2
  /\ wp.check.e = "HopLimitExceeded" /\ wp.check.v = 0

\* the 16-bit big-endian word number k (from 1) of h
Word16(h, k) == h[2 * k - 1] * 256 + h[2 * k]
\* the one's-complement sum of the ten words of the header h, carries folded in
HeaderSum(h) ==
  LET total == Word16(h, 1) + Word16(h, 2) + Word16(h, 3) + Word16(h, 4) + Word16(h, 5)
               + Word16(h, 6) + Word16(h, 7) + Word16(h, 8) + Word16(h, 9) + Word16(h, 10)
      once == (total % 65536) + (total \div 65536)
  IN (once % 65536) + (once \div 65536)

\* C18: in every IPv4 packet composeIPv4ICMP produced, the one's-complement
\* sum of the ten 16-bit words of the header, the stored checksum among them,
\* is 0xFFFF.
C18_HeaderChecksum ==
  (wp.called /\ Len(wp.out.icmp) >= 20 /\ wp.out.icmp[1] \div 16 = 4) =>
    HeaderSum(wp.out.icmp) = 65535

\* C18 witness: an IPv4 reply whose header words, the checksum left out, add
\* up to more than 16 bits, so that the carry had to be folded in.
C18_Witness ==
  /\ wp.called /\ Len(wp.out.icmp) >= 20 /\ wp.out.icmp[1] \div 16 = 4
  /\ SumWords(SubSeq(wp.out.icmp, 1, 20), 0, 10) > 65535

\* What a step does to the channels of session s: one report more on
\* closeChan (device_closed), one more on errChan (session_error), nothing.
ReportsDeviceClosed(s) ==
  /\ Len(closeChan'[chanOf[s]]) = Len(closeChan[chanOf[s]]) + 1
  /\ errChan' = errChan
ReportsSessionError(s) ==
  /\ Len(errChan'[chanOf[s]]) = Len(errChan[chanOf[s]]) + 1
  /\ closeChan' = closeChan
ReportsNothing == errChan' = errChan /\ closeChan' = closeChan

\* C19: in both goroutines, os.ErrClosed from the TUN (read, write, ICMP
\* write) is reported as device_closed and ends the task; an error of
\* ReadPacket / WritePacket that is net.ErrClosed is reported as session_error
\* and ends the task; any other error of ReadPacket / WritePacket is logged,
\* nothing is reported, and the task goes on with the next packet.
C19_ErrorClassification ==
  [][ \A s \in Sessions :
        /\ \A res \in TunReads(tunSeq + 1) :
             (EgressRead(s, res) /\ res.err.e = "os.ErrClosed") =>
                (ReportsDeviceClosed(s) /\ eg'[s].pc = "done")
        /\ \A res \in TunWrites :
             (EgressIcmp(s, res) /\ res.e = "os.ErrClosed") =>
                (ReportsDeviceClosed(s) /\ eg'[s].pc = "done")
        /\ \A res \in TunWrites :
             (IngressWrite(s, res) /\ res.e = "os.ErrClosed") =>
                (ReportsDeviceClosed(s) /\ ing'[s].pc = "done")
        /\ \A send \in Sends(tr[s]) :
             LET w == WritePacket(eg[s].pkt, send, cancelled) IN
               /\ (EgressWrite(s, send) /\ w.err.e \in {"net.ErrClosed", "lib.closed"}) =>
                    (ReportsSessionError(s) /\ eg'[s].pc = "done")
               /\ (EgressWrite(s, send) /\ w.err.e \notin {"nil", "net.ErrClosed", "lib.closed"}) =>
                    (ReportsNothing /\ eg'[s].pc = "tunRead")
        /\ \A in \in Receives(tr[s], gwSeq + 1) :
             LET r == ReadPacket(tr[s].kind, in, cancelled) IN
               /\ (IngressRead(s, in) /\ r.r = "ret"
                     /\ r.err.e \in {"net.ErrClosed", "lib.closed"}) =>
                    (ReportsSessionError(s) /\ ing'[s].pc = "done")
               /\ (IngressRead(s, in) /\ r.r = "ret"
                     /\ r.err.e \notin {"nil", "net.ErrClosed", "lib.closed"}) =>
                    (ReportsNothing /\ ing'[s].pc = "log")
        /\ (ing[s].pc = "log" /\ ing'[s] # ing[s]) => (ReportsNothing /\ ing'[s].pc = "read")
    ]_vars

\* C19 witness: in one session the egress task has ended on a closed TUN,
\* reported on closeChan, while the ingress task has just logged a transport
\* error that is not net.ErrClosed and is about to read again.
C19_Witness ==
  /\ pc = "select" /\ cur = 1 /\ ~cancelled
  /\ eg[1].pc = "done" /\ Len(closeChan[chanOf[1]]) = 1 /\ errChan[chanOf[1]] = <<>>
  /\ ing[1].pc = "log"

\* How often packet i occurs in the ledger q.
Occurs(q, i) == Cardinality({ k \in 1..Len(q) : q[k] = i })

\* C20: a packet the egress task read from the TUN is sent to the gateway at
\* most once, or answered with at most one ICMP packet written to the TUN,
\* never both; it is sent only by WritePacket and only if the inspector
\* passes it; an ICMP reply is written only for the packet WritePacket
\* returned it for, and that packet was not sent; and when WritePacket neither
\* sent the packet nor returned an ICMP reply, it returned an error.
C20_OneOutcome ==
  [][ \A s \in Sessions :
        /\ \A i \in 1..MaxPkts :
             /\ Occurs(sent'[s], i) + Occurs(icmpWritten'[s], i) <= 1
             /\ Occurs(sent'[s], i) + Occurs(icmpWritten'[s], i) <= Occurs(tunRead'[s], i)
        /\ sent'[s] # sent[s] =>
             /\ eg[s].pc = "write" /\ eg'[s].pc = "tunRead"
             /\ CheckPacket(eg[s].pkt) = Nil
             /\ sent'[s] = Append(sent[s], eg[s].pkt.id)
             /\ icmpWritten' = icmpWritten
        /\ icmpWritten'[s] # icmpWritten[s] =>
             /\ eg[s].pc = "icmp" /\ eg'[s].pc = "tunRead"
             /\ icmpWritten'[s] = Append(icmpWritten[s], eg[s].pkt.id)
             /\ sent' = sent
        /\ (eg[s].pc = "write" /\ eg'[s].pc = "icmp") =>
             /\ eg'[s].pkt.id = eg[s].pkt.id
             /\ sent' = sent
        /\ (eg[s].pc = "write" /\ eg'[s].pc \in {"tunRead", "done"} /\ sent'[s] = sent[s]) =>
             \E send \in Sends(tr[s]) :
               /\ EgressWrite(s, send)
               /\ WritePacket(eg[s].pkt, send, cancelled).err # Nil
    ]_vars

\* C20 witness: of three packets read from the TUN the first was sent to the
\* gateway, the second answered with an ICMP packet on the TUN, and the third
\* dropped with an error.
C20_Witness ==
  /\ tunRead[1] = <<1, 2, 3>>
  /\ sent[1] = <<1>>
  /\ icmpWritten[1] = <<2>>
  /\ eg[1].pc = "tunRead"

\* C21: once the context is cancelled, a ReadPacket call of either transport
\* that fails returns net.ErrClosed, at whichever step it fails, and a
\* WritePacket call returns net.ErrClosed.
C21_ClosedAfterCancel ==
  /\ (rp.called /\ rp.done /\ rp.out.r = "ret" /\ rp.out.err # Nil) => rp.out.err = NetErrClosed
  /\ (wp.called /\ wp.done) => wp.out.err = NetErrClosed

\* C22: the egress goroutine holds a buffer exactly from the Get at the top of
\* an iteration until WritePacket has returned (or ReadPacket has failed); the
\* ingress goroutine holds one exactly from its start to its exit. The
\* buffers held are the goroutines' own, there are never more than two, what
\* is put back is the full slice (len = cap = MTU) and is kept by the pool, and
\* no goroutine puts back a buffer it no longer holds.
C22_BuffersReturned ==
  /\ taskBuf.egHas <=> ((eg[1].pc = "tunRead" /\ taskBuf.egGot) \/ eg[1].pc = "write")
  /\ taskBuf.ingHas <=> (taskBuf.ingGot /\ ing[1].pc # "done" /\ ~crashed)
  /\ held = (IF taskBuf.egHas THEN {taskBuf.eg} ELSE {})
              \cup (IF taskBuf.ingHas THEN {taskBuf.ing} ELSE {})
  /\ (taskBuf.egHas /\ taskBuf.ingHas) => taskBuf.eg # taskBuf.ing
  /\ Cardinality(held) <= 2
  /\ held \cap pool = {}
  /\ refused = {}
  /\ \A x \in pool \cup held : x.len = Mtu /\ x.cap = Mtu
  /\ ~taskBuf.twice

\* C22 witness: the ingress goroutine has ended and its buffer is back in the
\* pool, while the egress goroutine, in WritePacket, holds another.
C22_Witness ==
  /\ ing[1].pc = "done" /\ taskBuf.ingGot /\ ~taskBuf.ingHas /\ taskBuf.ing \in pool
  /\ eg[1].pc = "write" /\ taskBuf.egHas /\ taskBuf.eg \in held
  /\ taskBuf.eg # taskBuf.ing

\* C23: HTTP3Connection.Close closes the components that exist in the order
\* request stream, HTTP/3 transport, UDP socket, makes no call on a component
\* that is nil, and returns nil whichever of the Close calls fail.
C23_CloseOrder ==
  (cp.called /\ cp.kind = "h3") =>
    /\ cp.out.err = Nil
    /\ \A x \in {"conn", "transport", "udpConn"} :
         Cardinality({ k \in 1..Len(cp.out.calls) : cp.out.calls[k] = x })
           = (IF x \in Components(cp.c) THEN 1 ELSE 0)
    /\ \A i, j \in 1..Len(cp.out.calls) :
         /\ (cp.out.calls[i] = "conn" /\ cp.out.calls[j] \in {"transport", "udpConn"}) => i < j
         /\ (cp.out.calls[i] = "transport" /\ cp.out.calls[j] = "udpConn") => i < j

\* C23 witness: Close was called on a half-built connection without a request
\* stream, the Close of its transport and of its socket both failed.
C23_Witness ==
  /\ cp.called /\ cp.kind = "h3"
  /\ ~cp.c.conn /\ cp.c.udpConn
  /\ cp.fails = {"transport", "udpConn"}
  /\ cp.out.calls = <<"transport", "udpConn">>

\* C24: whatever length a record declares, HTTP2Connection.ReadPacket with a
\* buffer of MTU bytes does not panic: it goes on to the next record, returns
\* an error, or returns a length of at most MTU with no more than MTU bytes
\* written to the buffer.
C24_NoFaultOnLongRecord ==
  (rp.called /\ rp.kind = "h2") =>
    /\ rp.out.r # "panic"
    /\ (rp.out.r = "ret" /\ rp.out.err = Nil) => (rp.out.n <= Mtu /\ Len(rp.buf) <= Mtu)

\* The supervisor is at a point where no transport may be left open: about to
\* start an attempt, asleep, returned or exited.
BetweenTransports ==
  pc \in {"loop", "conn3", "conn2", "sleep", "errSleep", "returned", "exited"}

\* C25: at most one transport is open at any moment: the object a connection
\* attempt left in ipConn, whole or half-built, is never nil when the
\* supervisor calls Close on it, is closed exactly once before the supervisor
\* starts the next attempt, sleeps or returns, and is replaced by the object
\* of the next attempt only after that.
C25_OneTransportOpen ==
  /\ [](/\ ipConn.closes <= 1
        /\ pc \in {"close3", "close2", "ctxClose", "errClose", "devClose", "select"} =>
             (ipConn.kind # "none" /\ ipConn.closes = 0)
        /\ BetweenTransports => (ipConn.kind = "none" \/ ipConn.closes = 1)
        /\ Cardinality({ s \in Sessions : tr[s].st \in {"open", "dead"} })
             + (IF pc \in {"close3", "close2"} THEN 1 ELSE 0) <= 1)
  /\ [][ /\ ipConn'.c # ipConn.c \/ ipConn'.kind # ipConn.kind \/ ipConn'.closes < ipConn.closes =>
              (ipConn.kind = "none" \/ ipConn.closes = 1)
         /\ ipConn'.closes > ipConn.closes => ipConn.kind # "none"
     ]_vars

\* C25 witness: the first session is over and its transport closed; the
\* HTTP/3 attempt after it failed without a socket, its half-built object has
\* been closed once, and the supervisor is about to try HTTP/2.
C25_Witness ==
  /\ cur = 1 /\ pc = "conn2"
  /\ tr[1].st = "closed"
  /\ ipConn = SupervisorClose(Conn("h3", HTTP3Fields(FALSE, TRUE, FALSE)))

\* The tasks of session s that have returned, and whether one is still running.
DoneTasks(s) == (IF eg[s].pc = "done" THEN 1 ELSE 0) + (IF ing[s].pc = "done" THEN 1 ELSE 0)
TaskRunning(s) ==
  eg[s].pc \in {"tunRead", "write", "icmp"} \/ ing[s].pc \in {"read", "log", "tunWrite"}

\* C26: a task that is still running can always complete a send on errChan
\* and on closeChan of its session, wherever the supervisor is; every report
\* is the last step of the task that makes it, so that a session makes at most
\* two reports, one per task.
C26_ReportNeverBlocks ==
  /\ [](\A s \in 1..cur :
          /\ TaskRunning(s) => (CanReport(s, OsErrClosed) /\ CanReport(s, NetErrClosed))
          /\ nrep[s] = DoneTasks(s)
          /\ Len(errChan[chanOf[s]]) + Len(closeChan[chanOf[s]]) <= nrep[s])
  /\ [][ \A s \in 1..cur :
           nrep'[s] # nrep[s] =>
             /\ nrep'[s] = nrep[s] + 1
             /\ Len(errChan'[chanOf[s]]) + Len(closeChan'[chanOf[s]])
                  = Len(errChan[chanOf[s]]) + Len(closeChan[chanOf[s]]) + 1
             /\ \/ eg[s].pc # "done" /\ eg'[s].pc = "done" /\ ing'[s] = ing[s]
                \/ ing[s].pc # "done" /\ ing'[s].pc = "done" /\ eg'[s] = eg[s]
     ]_vars

\* C26 witness: the supervisor has left the select of session 1 and runs
\* session 2; both tasks of session 1 have reported on the same channel and
\* returned, and the report the supervisor did not take is still in it.
C26_Witness ==
  /\ cur = 2 /\ pc = "select"
  /\ eg[1].pc = "done" /\ ing[1].pc = "done"
  /\ Len(errChan[chanOf[1]]) = 1 /\ closeChan[chanOf[1]] = <<>>
  /\ chanOf[1] # chanOf[2]

====
